---------------------------- MODULE Spec2Model ----------------------------
(***************************************************************************)
(* A model of the hyperwiz HTTP client: circuit breaker and retry          *)
(* controller, in-memory LRU cache, request pipeline, request              *)
(* de-duplication, encrypted token store and authentication middleware.    *)
(*                                                                         *)
(* Every component has its own specification (SpecBreaker, SpecCache, ...) *)
(* over its own variables; the variables of the other components keep      *)
(* their initial value under it.                                           *)
(***************************************************************************)
EXTENDS Integers, Sequences, FiniteSets, TLC

VARIABLES
    \* ---- clock (Date.now()) ----
    now,              \* current time in ms
    ticks,            \* number of clock advances so far (bounds the run)
    \* ---- circuit breaker (createClient.ts) ----
    circuitBreakers,  \* Map<string, CircuitBreakerState>
    consecFail,       \* history: recordFailure calls per key since the last recordSuccess
    cbLast,           \* history: the last circuit-breaker call and what it saw
    \* ---- MemoryCacheStorage (cache.ts) ----
    maxSize,          \* this.maxSize
    cache,            \* this.cache: the Map's entries in insertion order
    recency,          \* history: the stored keys, least recently accessed first
    setOrder,         \* history: the stored keys, least recently set first
    cacheLast,        \* history: the last storage call and what it did
    scenario,         \* history: progress through "set /a, set /b, set /c" on an empty store
    \* ---- a client with retry enabled, and its request in progress ----
    client,           \* the configuration createClient was called with
    req,              \* the request: position, transport calls made, retry counters
    \* ---- token store (TokenManager) ----
    localStorage,     \* the six items the token store keeps in localStorage
    tokenStore,       \* the in-memory tokenStore object
    globalSecretKey,  \* the in-memory key
    tokLast,          \* history: the last call of the token store and its arguments
    stamp,            \* history: when and with which ttl each token was last stored
    plain,            \* history: the token strings last stored
    \* ---- authentication middleware ----
    middleware,       \* createAuthMiddleware's secretKey and the client's URLs
    active,           \* the invocations of withAuth that may run
    auth,             \* per invocation: position, local variables, counters
    location,         \* window.location.href
    \* ---- HttpClient.request ----
    http,             \* the client's interceptors and its request in progress
    \* ---- request de-duplication of the cache-enabled client.get ----
    dedup,            \* pendingRequests, the cached URLs and the calls of client.get
    \* ---- cache wrappers of client.get / post / ... and the cache key ----
    wrap,             \* the cache configuration, the stored responses, the last call
    keygen,           \* two calls of CacheKeyGenerator.generate and their keys
    \* ---- cancellation of the requests in flight ----
    cancel            \* the client's timeout, its requests in flight, timeoutControllers

clockVars   == <<now, ticks>>
breakerVars == <<circuitBreakers, consecFail, cbLast>>
cacheVars   == <<maxSize, cache, recency, setOrder, cacheLast, scenario>>
retryVars   == <<client, req>>
storeVars   == <<localStorage, tokenStore, globalSecretKey>>
tokenVars   == <<storeVars, tokLast, stamp, plain>>
authVars    == <<middleware, active, auth, location>>
pipeVars    == <<http, dedup>>
wrapVars    == <<wrap, keygen, cancel>>
vars        == <<clockVars, breakerVars, cacheVars, retryVars, tokenVars, authVars, pipeVars,
                 wrapVars>>

\* what the actions of one component leave alone
notBreaker  == <<cacheVars, retryVars, tokenVars, authVars, pipeVars,
                 wrapVars>>
notCache    == <<clockVars, breakerVars, retryVars, tokenVars, authVars, pipeVars,
                 wrapVars>>
notRetry    == <<consecFail, cbLast, cacheVars, tokenVars, authVars, pipeVars,
                 wrapVars>>
notToken    == <<breakerVars, cacheVars, retryVars, authVars, pipeVars,
                 wrapVars>>
notAuth     == <<breakerVars, cacheVars, retryVars, tokLast, stamp, plain, pipeVars,
                 wrapVars>>
notHttp     == <<clockVars, breakerVars, cacheVars, retryVars, tokenVars, authVars, dedup,
                 wrapVars>>
notDedup    == <<clockVars, breakerVars, cacheVars, retryVars, tokenVars, authVars, http,
                 wrapVars>>
notWrap     == <<breakerVars, cacheVars, retryVars, tokenVars, authVars, pipeVars, keygen,
                 cancel>>
notKeygen   == <<clockVars, breakerVars, cacheVars, retryVars, tokenVars, authVars, pipeVars,
                 wrap, cancel>>
notCancel   == <<breakerVars, cacheVars, retryVars, tokenVars, authVars, pipeVars, wrap, keygen>>

-----------------------------------------------------------------------------
(* Bounds of the model *)

MaxTicks    == 3     \* clock advances per run
MaxFailures == 11    \* recordFailure stops counting here (threshold is 10)
MaxCacheSize == 3    \* largest maxSize a MemoryCacheStorage is built with
MaxRetriesBound == 3 \* largest maxRetries a client is configured with
MaxHandlers == 2     \* most interceptors of one kind on a client
MaxParams   == 2     \* most parameters in a query string

-----------------------------------------------------------------------------
(* Helpers on maps (JavaScript Map as a function over the keys present) *)

EmptyMap == [k \in {} |-> 0]

MapSet(m, k, v) == [x \in DOMAIN m \cup {k} |-> IF x = k THEN v ELSE m[x]]

MapDelete(m, k) == [x \in DOMAIN m \ {k} |-> m[x]]

-----------------------------------------------------------------------------
(* Clock *)

ClockSteps == {1, 29999, 30000}

InitClock == now = 0 /\ ticks = 0

AdvanceClock ==
    /\ ticks < MaxTicks
    /\ \E d \in ClockSteps : now' = now + d
    /\ ticks' = ticks + 1

-----------------------------------------------------------------------------
(* Circuit breaker: shouldAllowRequest / recordSuccess / recordFailure *)

Origins == {"https://a.test", "https://b.test"}

BreakerTimeout   == 30000
FailureThreshold == 10

\* mutant of shouldAllowRequest: the cool-down test uses >= instead of >
shouldAllowRequest_ge(breakers, key, t) ==
    IF key \notin DOMAIN breakers THEN [allow |-> TRUE, breakers |-> breakers]
    ELSE LET breaker == breakers[key] IN
         CASE breaker.state = "CLOSED" -> [allow |-> TRUE, breakers |-> breakers]
           [] breaker.state = "OPEN" ->
                IF t - breaker.lastFailureTime >= BreakerTimeout
                THEN [allow |-> TRUE,
                      breakers |-> MapSet(breakers, key, [breaker EXCEPT !.state = "HALF_OPEN"])]
                ELSE [allow |-> FALSE, breakers |-> breakers]
           [] breaker.state = "HALF_OPEN" -> [allow |-> TRUE, breakers |-> breakers]
           [] OTHER -> [allow |-> TRUE, breakers |-> breakers]

\* shouldAllowRequest(circuitBreakerKey): the answer and the map it leaves
shouldAllowRequest(breakers, key, t) ==
    IF key \notin DOMAIN breakers THEN [allow |-> TRUE, breakers |-> breakers]
    ELSE LET breaker == breakers[key] IN
         CASE breaker.state = "CLOSED" -> [allow |-> TRUE, breakers |-> breakers]
           [] breaker.state = "OPEN" ->
                IF t - breaker.lastFailureTime > BreakerTimeout
                THEN [allow |-> TRUE,
                      breakers |-> MapSet(breakers, key, [breaker EXCEPT !.state = "HALF_OPEN"])]
                ELSE [allow |-> FALSE, breakers |-> breakers]
           [] breaker.state = "HALF_OPEN" -> [allow |-> TRUE, breakers |-> breakers]
           [] OTHER -> [allow |-> TRUE, breakers |-> breakers]

recordSuccess(breakers, key) ==
    IF key \in DOMAIN breakers
    THEN MapSet(breakers, key, [breakers[key] EXCEPT !.failures = 0, !.state = "CLOSED"])
    ELSE breakers

recordFailure(breakers, key, t) ==
    LET breaker == IF key \in DOMAIN breakers THEN breakers[key]
                   ELSE [failures |-> 0, lastFailureTime |-> 0, state |-> "CLOSED"]
        failures == breaker.failures + 1
    IN MapSet(breakers, key,
              [failures |-> failures,
               lastFailureTime |-> t,
               state |-> IF failures >= FailureThreshold THEN "OPEN" ELSE breaker.state])

BreakerStateOf(breakers, key) ==
    IF key \in DOMAIN breakers THEN breakers[key].state ELSE "ABSENT"

\* now - lastFailureTime of a key's breaker (0 when there is none)
SinceLastFailure(breakers, key, t) ==
    IF key \in DOMAIN breakers THEN t - breakers[key].lastFailureTime ELSE 0

NoCall ==
    [op |-> "none", key |-> "", before |-> "ABSENT", since |-> 0, allow |-> TRUE]

InitBreaker ==
    /\ circuitBreakers = EmptyMap
    /\ consecFail = [k \in Origins |-> 0]
    /\ cbLast = NoCall

ShouldAllowRequestCall ==
    \E key \in Origins :
        LET r == shouldAllowRequest(circuitBreakers, key, now) IN
        /\ circuitBreakers' = r.breakers
        /\ cbLast' = [op |-> "shouldAllowRequest", key |-> key,
                      before |-> BreakerStateOf(circuitBreakers, key),
                      since |-> SinceLastFailure(circuitBreakers, key, now),
                      allow |-> r.allow]
        /\ UNCHANGED <<consecFail, clockVars, notBreaker>>

RecordSuccessCall ==
    \E key \in Origins :
        /\ circuitBreakers' = recordSuccess(circuitBreakers, key)
        /\ consecFail' = [consecFail EXCEPT ![key] = 0]
        /\ cbLast' = [op |-> "recordSuccess", key |-> key,
                      before |-> BreakerStateOf(circuitBreakers, key),
                      since |-> SinceLastFailure(circuitBreakers, key, now),
                      allow |-> TRUE]
        /\ UNCHANGED <<clockVars, notBreaker>>

RecordFailureCall ==
    \E key \in Origins :
        /\ consecFail[key] < MaxFailures
        /\ circuitBreakers' = recordFailure(circuitBreakers, key, now)
        /\ consecFail' = [consecFail EXCEPT ![key] = @ + 1]
        /\ cbLast' = [op |-> "recordFailure", key |-> key,
                      before |-> BreakerStateOf(circuitBreakers, key),
                      since |-> SinceLastFailure(circuitBreakers, key, now),
                      allow |-> TRUE]
        /\ UNCHANGED <<clockVars, notBreaker>>

BreakerTick == AdvanceClock /\ UNCHANGED <<breakerVars, notBreaker>>

NextBreaker ==
    \/ ShouldAllowRequestCall
    \/ RecordSuccessCall
    \/ RecordFailureCall
    \/ BreakerTick

-----------------------------------------------------------------------------
(* C4: the circuit breaker's cool-down and probe *)

BreakerIsOpenAfterThreshold ==
    \A k \in Origins :
        consecFail[k] >= FailureThreshold =>
            BreakerStateOf(circuitBreakers, k) \in {"OPEN", "HALF_OPEN"}

BreakerRefusesDuringCoolDown ==
    (cbLast.op = "shouldAllowRequest" /\ cbLast.before = "OPEN"
        /\ cbLast.since <= BreakerTimeout)
    => (~cbLast.allow /\ BreakerStateOf(circuitBreakers, cbLast.key) = "OPEN")

BreakerProbesAfterCoolDown ==
    (cbLast.op = "shouldAllowRequest" /\ cbLast.before = "OPEN"
        /\ cbLast.since > BreakerTimeout)
    => (cbLast.allow /\ BreakerStateOf(circuitBreakers, cbLast.key) = "HALF_OPEN")

BreakerProbeResolves ==
    /\ (cbLast.op = "recordSuccess" /\ cbLast.before = "HALF_OPEN")
        => BreakerStateOf(circuitBreakers, cbLast.key) = "CLOSED"
    /\ (cbLast.op = "recordFailure" /\ cbLast.before = "HALF_OPEN")
        => BreakerStateOf(circuitBreakers, cbLast.key) = "OPEN"

\* C4 as claimed: after 10 consecutive failures the breaker refuses requests
\* until more than 30 s have passed since the last failure, then allows exactly
\* one probe and refuses every further call while HALF_OPEN, and the probe's
\* outcome closes or re-opens it.
C4_ProbeAllowedOnce ==
    /\ BreakerIsOpenAfterThreshold
    /\ BreakerRefusesDuringCoolDown
    /\ BreakerProbesAfterCoolDown
    /\ BreakerProbeResolves
    /\ (cbLast.op = "shouldAllowRequest" /\ cbLast.before = "HALF_OPEN") => ~cbLast.allow

\* C4 as amended: as above, but while HALF_OPEN every call of
\* shouldAllowRequest is allowed (and leaves the breaker HALF_OPEN) until
\* recordSuccess or recordFailure resolves the probe.
C4_HalfOpenAllowsAll ==
    /\ BreakerIsOpenAfterThreshold
    /\ BreakerRefusesDuringCoolDown
    /\ BreakerProbesAfterCoolDown
    /\ BreakerProbeResolves
    /\ (cbLast.op = "shouldAllowRequest" /\ cbLast.before = "HALF_OPEN")
        => (cbLast.allow /\ BreakerStateOf(circuitBreakers, cbLast.key) = "HALF_OPEN")

\* a second shouldAllowRequest while the probe is unresolved, after a refusal
\* at exactly 30 s, has been answered
C4_Witness ==
    /\ cbLast.op = "shouldAllowRequest"
    /\ cbLast.before = "HALF_OPEN"
    /\ cbLast.allow
    /\ consecFail[cbLast.key] >= FailureThreshold

-----------------------------------------------------------------------------
(* MemoryCacheStorage: get / set / delete / clear on a Map kept in LRU order *)

CacheKeys == {"GET:/a", "GET:/b", "GET:/c", "GET:/d"}

\* JavaScript truthiness of a string
Truthy(str) == str # ""

KeysOf(c) == {c[i].key : i \in 1..Len(c)}

RemoveKey(c, key) == SelectSeq(c, LAMBDA e : e.key # key)

EntryOf(c, key) == CHOOSE e \in {c[i] : i \in 1..Len(c)} : e.key = key

\* the while loop of set: delete the first key while size >= maxSize
RECURSIVE evictWhileFull(_, _)
evictWhileFull(c, size) ==
    IF Len(c) >= size /\ Len(c) > 0 /\ Truthy(Head(c).key)
    THEN evictWhileFull(Tail(c), size)
    ELSE c

\* mutant of cacheGet: a hit does not move the entry to the end of the Map
cacheGet_noPromote(c, key) ==
    IF key \notin KeysOf(c) THEN [hit |-> FALSE, cache |-> c]
    ELSE IF ~EntryOf(c, key).valid THEN [hit |-> FALSE, cache |-> RemoveKey(c, key)]
    ELSE [hit |-> TRUE, cache |-> c]

\* MemoryCacheStorage.get: a miss, an invalid entry dropped, or a hit moved to the end
cacheGet(c, key) ==
    IF key \notin KeysOf(c) THEN [hit |-> FALSE, cache |-> c]
    ELSE LET cached == EntryOf(c, key) IN
         IF ~cached.valid THEN [hit |-> FALSE, cache |-> RemoveKey(c, key)]
         ELSE IF Len(c) > 1 /\ key # c[Len(c)].key
              THEN [hit |-> TRUE, cache |-> Append(RemoveKey(c, key), cached)]
              ELSE [hit |-> TRUE, cache |-> c]

\* mutant of cacheSet: the eviction loop runs before the key's own entry is removed
cacheSet_evictFirst(c, size, key, value) ==
    Append(RemoveKey(evictWhileFull(c, size), key), value)

\* MemoryCacheStorage.set
cacheSet(c, size, key, value) ==
    Append(evictWhileFull(RemoveKey(c, key), size), value)

cacheDelete(c, key) == RemoveKey(c, key)

cacheClear(c) == <<>>

\* the recency order after an access of key that left the keys in `kept`
Touch(r, key, kept) == Append(SelectSeq(r, LAMBDA k : k # key /\ k \in kept), key)

NoCacheCall ==
    [op |-> "none", key |-> "", hit |-> FALSE, keysBefore |-> {}, lru |-> "",
     oldestSet |-> "", evicted |-> {}]

InitCache ==
    /\ maxSize \in 1..MaxCacheSize
    /\ cache = <<>>
    /\ recency = <<>>
    /\ setOrder = <<>>
    /\ cacheLast = NoCacheCall
    /\ scenario = 0

LruOf(r) == IF Len(r) > 0 THEN Head(r) ELSE ""

CacheGetCall ==
    \E key \in CacheKeys :
        LET r == cacheGet(cache, key) IN
        /\ cache' = r.cache
        /\ recency' = IF r.hit THEN Touch(recency, key, KeysOf(r.cache))
                      ELSE SelectSeq(recency, LAMBDA k : k \in KeysOf(r.cache))
        /\ setOrder' = SelectSeq(setOrder, LAMBDA k : k \in KeysOf(r.cache))
        /\ cacheLast' = [op |-> "get", key |-> key, hit |-> r.hit,
                         keysBefore |-> KeysOf(cache), lru |-> LruOf(recency),
                         oldestSet |-> LruOf(setOrder),
                         evicted |-> KeysOf(cache) \ KeysOf(r.cache)]
        /\ scenario' = -1
        /\ UNCHANGED <<maxSize, notCache>>

CacheSetCall ==
    \E key \in CacheKeys, valid \in BOOLEAN :
        LET c2 == cacheSet(cache, maxSize, key, [key |-> key, valid |-> valid]) IN
        /\ cache' = c2
        /\ recency' = Touch(recency, key, KeysOf(c2))
        /\ setOrder' = Touch(setOrder, key, KeysOf(c2))
        /\ cacheLast' = [op |-> "set", key |-> key, hit |-> FALSE,
                         keysBefore |-> KeysOf(cache), lru |-> LruOf(recency),
                         oldestSet |-> LruOf(setOrder),
                         evicted |-> KeysOf(cache) \ KeysOf(c2)]
        /\ scenario' = IF scenario = 0 /\ key = "GET:/a" THEN 1
                       ELSE IF scenario = 1 /\ key = "GET:/b" THEN 2
                       ELSE IF scenario = 2 /\ key = "GET:/c" THEN 3
                       ELSE -1
        /\ UNCHANGED <<maxSize, notCache>>

CacheDeleteCall ==
    \E key \in CacheKeys :
        /\ cache' = cacheDelete(cache, key)
        /\ recency' = SelectSeq(recency, LAMBDA k : k # key)
        /\ setOrder' = SelectSeq(setOrder, LAMBDA k : k # key)
        /\ cacheLast' = [op |-> "delete", key |-> key, hit |-> FALSE,
                         keysBefore |-> KeysOf(cache), lru |-> LruOf(recency),
                         oldestSet |-> LruOf(setOrder),
                         evicted |-> {}]
        /\ scenario' = -1
        /\ UNCHANGED <<maxSize, notCache>>

CacheClearCall ==
    /\ cache' = cacheClear(cache)
    /\ recency' = <<>>
    /\ setOrder' = <<>>
    /\ cacheLast' = [op |-> "clear", key |-> "", hit |-> FALSE,
                     keysBefore |-> KeysOf(cache), lru |-> LruOf(recency),
                         oldestSet |-> LruOf(setOrder),
                     evicted |-> {}]
    /\ scenario' = -1
    /\ UNCHANGED <<maxSize, notCache>>

NextCache ==
    \/ CacheGetCall
    \/ CacheSetCall
    \/ CacheDeleteCall
    \/ CacheClearCall

-----------------------------------------------------------------------------
(* C3: LRU eviction of MemoryCacheStorage *)

\* C3: a set of a new key into a full store evicts exactly the key least
\* recently accessed (by set or by a successful get) and nothing else; with
\* maxSize 2, storing /a, /b, /c in sequence leaves exactly /b and /c.
C3_LruEviction ==
    /\ (cacheLast.op = "set" /\ cacheLast.key \notin cacheLast.keysBefore
            /\ Cardinality(cacheLast.keysBefore) = maxSize)
        => (/\ cacheLast.evicted = {cacheLast.lru}
            /\ KeysOf(cache) = (cacheLast.keysBefore \ {cacheLast.lru}) \cup {cacheLast.key})
    /\ (cacheLast.op = "get" /\ cacheLast.hit)
        => (Len(cache) > 0 /\ cache[Len(cache)].key = cacheLast.key)
    /\ (scenario = 3 /\ maxSize = 2) => KeysOf(cache) = {"GET:/b", "GET:/c"}

\* a full store whose least recently used key is not its oldest insertion
\* (a get promoted another key) has just evicted on a set of a new key
C3_Witness ==
    /\ cacheLast.op = "set"
    /\ cacheLast.key \notin cacheLast.keysBefore
    /\ Cardinality(cacheLast.keysBefore) = maxSize
    /\ maxSize >= 2
    /\ cacheLast.evicted = {cacheLast.lru}
    /\ cacheLast.lru # cacheLast.oldestSet
    /\ cacheLast.oldestSet \in KeysOf(cache)

-----------------------------------------------------------------------------
(* C39: the capacity of MemoryCacheStorage *)

\* the Map after a set of a key it already holds: the other entries as they
\* were and in their order, and one entry for the key, last
ReplacedIn(c, key, c2) ==
    \E valid \in BOOLEAN : c2 = Append(RemoveKey(c, key), [key |-> key, valid |-> valid])

\* C39: whatever maxSize >= 1 the storage was built with and whatever set,
\* get, delete and clear calls it has served (the keys of every client that
\* shares it arrive through the same set, which runs without suspending), it
\* never holds more than maxSize entries nor two entries for one key, and a
\* set of a key already present replaces that key's entry and evicts no other.
C39_CapacityInvariant ==
    /\ [](Len(cache) <= maxSize /\ Cardinality(KeysOf(cache)) = Len(cache))
    /\ [][ (cacheLast'.op = "set" /\ cacheLast'.key \in KeysOf(cache))
            => ReplacedIn(cache, cacheLast'.key, cache') ]_vars

\* a full store of two or more entries has just served a set of a key that
\* was present, the least recently used entry being another key's
C39_Witness ==
    /\ cacheLast.op = "set"
    /\ cacheLast.key \in cacheLast.keysBefore
    /\ Cardinality(cacheLast.keysBefore) = maxSize
    /\ maxSize >= 2
    /\ cacheLast.lru # cacheLast.key
    /\ cacheLast.lru \in KeysOf(cache)
    /\ Len(cache) = maxSize

-----------------------------------------------------------------------------
(* Retry of a failing request: createClient's retry error handler and        *)
(* handleRetry (createClient.ts), and the retry loop of the cache wrapper's  *)
(* client.get in the later revision of createClient (part_006).              *)

RetryOrigin == "https://a.test"

Variants == {"createClient.ts", "part_006"}

DefaultRetryOnStatus == {408, 429, 500, 502, 503, 504}

\* createClient(baseUrl, {retry: {maxRetries, retryOnNetworkError}, cache}),
\* with no error interceptor of the application
ClientConfigs ==
    [variant : Variants, cache : BOOLEAN,
     maxRetries : 0..MaxRetriesBound, retryOnNetworkError : BOOLEAN,
     onError : {"none"}]

DefaultClient ==
    [variant |-> "createClient.ts", cache |-> FALSE,
     maxRetries |-> MaxRetriesBound, retryOnNetworkError |-> TRUE,
     onError |-> "none"]

\* createClient(baseUrl, {retry, interceptors: {onError: [e => new Error(String(e))]}}):
\* the application's error interceptor hands the retry handler an Error
ReissueConfigs ==
    [variant : {"createClient.ts"}, cache : {FALSE},
     maxRetries : 1..2, retryOnNetworkError : {TRUE}, onError : {"asError"}]

\* the methods a request can be made with: get, post, put, patch, delete, and
\* fetch(url, {method}) for any other
RequestMethods == {"GET", "POST", "DELETE", "HEAD"}

\* the RequestConfig of a call: its method, headers and body
NoConfig == [method |-> "", headers |-> "none", body |-> "none"]

RequestConfigs ==
    { c \in [method : RequestMethods, headers : {"none", "X-A"}, body : {"none", "b"}] :
        c.body = "b" <=> c.method = "POST" }

\* the number of leading calls the endpoint fails: some, or all of them
Always == MaxRetriesBound + 3

FailTimes == {1, Always}

\* what the endpoint does at every call: fetch rejects, or a non-2xx
\* response whose body is JSON ("Request failed") or text
Failures ==
    { [kind |-> "network", status |-> 0,   text |-> "Failed to fetch"],
      [kind |-> "status",  status |-> 500, text |-> "Request failed"],
      [kind |-> "status",  status |-> 504, text |-> "Gateway timeout"],
      [kind |-> "status",  status |-> 404, text |-> "Not found"] }

NoFailure == [kind |-> "none", status |-> 0, text |-> ""]

\* String.prototype.includes on the error texts of the model
TextIncludes ==
    { <<"Failed to fetch", "fetch">>, <<"Failed to fetch", "Failed to fetch">> }

\* includes on the lower-cased text
LowerTextIncludes ==
    { <<"Failed to fetch", "fetch">>, <<"Gateway timeout", "timeout">> }

\* the error values handed around: a string, an Error, or an object
StringError(text) ==
    [type |-> "string", name |-> "", text |-> text,
     hasStatus |-> FALSE, hasSuccess |-> FALSE, success |-> FALSE, status |-> 0]

\* the ApiResponse {success: false, status?, error} of a failed request
FailedResponse(status, text) ==
    [type |-> "object", name |-> "", text |-> text,
     hasStatus |-> status # 0, hasSuccess |-> TRUE, success |-> FALSE,
     status |-> status]

NoError == StringError("")

\* String(new Error(message)): 'Error: ' + message
ErrorString(message) ==
    CASE message = "Failed to fetch" -> "Error: Failed to fetch"
      [] message = "Request failed"  -> "Error: Request failed"
      [] message = "Gateway timeout" -> "Error: Gateway timeout"
      [] message = "Not found"       -> "Error: Not found"
      [] OTHER -> message

\* String(value)
StringOf(e) ==
    IF e.type = "object" THEN "[object Object]"
    ELSE IF e.type = "Error" THEN ErrorString(e.text)
    ELSE e.text

\* the error HttpClient.request hands to its error handlers: always a string
PipelineError(f) == StringError(f.text)

\* the ApiResponse {success: true, data} of a request that succeeded
SuccessResponse ==
    [type |-> "object", name |-> "", text |-> "",
     hasStatus |-> FALSE, hasSuccess |-> TRUE, success |-> TRUE, status |-> 0]

\* the value the application's error interceptor returns for the error it is given
Intercepted(onError, e) ==
    IF onError = "asError"
    THEN [type |-> "Error", name |-> "Error", text |-> StringOf(e),
          hasStatus |-> FALSE, hasSuccess |-> FALSE, success |-> FALSE, status |-> 0]
    ELSE e

\* handleRetry's switch on originalConfig.method: the call it re-issues
reissued(config) ==
    CASE config.method \in {"GET", "DELETE"} ->
            [method |-> config.method, headers |-> config.headers, body |-> "none"]
      [] config.method \in {"POST", "PUT", "PATCH"} ->
            [method |-> config.method, headers |-> config.headers, body |-> config.body]
      [] OTHER -> [method |-> "GET", headers |-> "none", body |-> "none"]

isNetworkError(variant, e) ==
    \/ /\ e.type = "Error"
       /\ \/ e.name = "TypeError"
          \/ \E w \in {"fetch", "network", "Failed to fetch"} : <<e.text, w>> \in TextIncludes
    \/ /\ variant = "part_006"
       /\ e.type = "string"
       /\ \E w \in {"fetch", "network", "Failed to fetch", "ECONNREFUSED",
                    "ENOTFOUND", "ETIMEDOUT"} : <<e.text, w>> \in TextIncludes

isHttpError(variant, e) ==
    \/ e.type = "object" /\ e.hasStatus
    \/ variant = "part_006" /\ e.type = "object" /\ e.hasSuccess
          /\ ~e.success /\ e.hasStatus

getHttpStatus(variant, e) == IF isHttpError(variant, e) THEN e.status ELSE 0

shouldRetry(cfg, e) ==
    IF cfg.retryOnNetworkError /\ isNetworkError(cfg.variant, e) THEN TRUE
    ELSE IF isHttpError(cfg.variant, e)
         THEN getHttpStatus(cfg.variant, e) \in DefaultRetryOnStatus
    ELSE IF cfg.variant = "part_006" /\ cfg.retryOnNetworkError /\ e.type = "string"
         THEN \E w \in {"fetch", "network", "connection", "timeout", "econnrefused",
                        "enotfound", "etimedout"} : <<e.text, w>> \in LowerTextIncludes
    ELSE FALSE

\* a request: where it is, what the endpoint does, the RequestConfig it was
\* made with and that of its latest transport call, and what has happened
IdleRequest ==
    [pc |-> "idle", failure |-> NoFailure, calls |-> 0, attempts |-> 0,
     urlAttempt |-> 0, depth |-> 0, error |-> NoError,
     config |-> NoConfig, sent |-> NoConfig, failTimes |-> 0,
     succeeded |-> FALSE, retryOk |-> FALSE, ok |-> FALSE]

InitRetry ==
    /\ client \in ClientConfigs
    /\ req = IdleRequest

\* client.get(url) on an endpoint that fails the same way at every call
ClientGetCall ==
    /\ req.pc \in {"idle", "done"}
    /\ \E f \in Failures :
          req' = [IdleRequest EXCEPT
                     !.pc = "fetch", !.failure = f, !.failTimes = Always,
                     !.config = [method |-> "GET", headers |-> "none", body |-> "none"]]
    /\ UNCHANGED <<client, circuitBreakers, clockVars, notRetry>>

\* client.get / post / delete / fetch(url, {method}) on an endpoint that
\* fails its first calls, or all of them
ClientRequestCall ==
    /\ req.pc \in {"idle", "done"}
    /\ \E f \in Failures, c \in RequestConfigs, n \in FailTimes :
          req' = [IdleRequest EXCEPT !.pc = "fetch", !.failure = f,
                                     !.failTimes = n, !.config = c]
    /\ UNCHANGED <<client, circuitBreakers, clockVars, notRetry>>

\* HttpClient.request: the transport call, of the request itself or of the
\* call handleRetry re-issues; it fails or, past the failing calls, succeeds
FetchCall ==
    /\ req.pc = "fetch"
    /\ LET sent == IF req.depth = 0 THEN req.config ELSE reissued(req.config) IN
       IF req.calls < req.failTimes
       THEN req' = [req EXCEPT !.pc = "onError", !.calls = @ + 1, !.sent = sent,
                               !.error = PipelineError(req.failure)]
       ELSE req' = [req EXCEPT !.pc = "return", !.calls = @ + 1, !.sent = sent,
                               !.succeeded = TRUE]
    /\ UNCHANGED <<client, circuitBreakers, clockVars, notRetry>>

\* runErrorHandlers: the retry error handler that createClient registers
\* (createClient.ts only), which asks the breaker and then calls handleRetry
RunErrorHandlers ==
    /\ req.pc = "onError"
    /\ IF client.variant = "createClient.ts"
       THEN LET r == shouldAllowRequest(circuitBreakers, RetryOrigin, now) IN
            IF ~r.allow
            THEN /\ circuitBreakers' = r.breakers
                 /\ req' = [req EXCEPT !.pc = "return",
                               !.error = Intercepted(client.onError, req.error)]
            ELSE IF \/ ~shouldRetry(client, Intercepted(client.onError, req.error))
                    \/ req.urlAttempt >= client.maxRetries
            THEN /\ circuitBreakers' = recordFailure(r.breakers, RetryOrigin, now)
                 /\ req' = [req EXCEPT !.pc = "return",
                               !.error = Intercepted(client.onError, req.error)]
            ELSE /\ circuitBreakers' = r.breakers
                 /\ req' = [req EXCEPT !.pc = "fetch", !.urlAttempt = @ + 1,
                                       !.depth = @ + 1]
       ELSE /\ req' = [req EXCEPT !.pc = "return"]
            /\ UNCHANGED circuitBreakers
    /\ UNCHANGED <<client, clockVars, notRetry>>

\* HttpClient.request returns {success: false, error: String(processedError)}:
\* to the handleRetry that called client.get for a retry, which records the
\* failure and hands the result on as the processed error, or to the caller
RequestReturn ==
    /\ req.pc = "return"
    /\ IF req.depth > 0 /\ req.succeeded
       \* the re-issued call succeeded: result.success, recordSuccess; its
       \* result is the processed error of the request that was retried
       THEN /\ circuitBreakers' = recordSuccess(circuitBreakers, RetryOrigin)
            /\ req' = [req EXCEPT !.depth = @ - 1, !.urlAttempt = @ - 1,
                          !.error = SuccessResponse, !.succeeded = FALSE,
                          !.retryOk = TRUE]
       ELSE IF req.depth > 0
       THEN /\ circuitBreakers' = recordFailure(circuitBreakers, RetryOrigin, now)
            /\ req' = [req EXCEPT !.depth = @ - 1, !.urlAttempt = @ - 1,
                          !.error = FailedResponse(req.failure.status, StringOf(req.error))]
       ELSE IF req.succeeded
       THEN /\ req' = [req EXCEPT !.pc = "done", !.ok = TRUE]
            /\ UNCHANGED circuitBreakers
       ELSE /\ req' = [req EXCEPT !.pc = IF client.variant = "part_006" /\ client.cache
                                         THEN "loop" ELSE "done",
                                  !.error = StringError(StringOf(req.error))]
            /\ UNCHANGED circuitBreakers
    /\ UNCHANGED <<client, clockVars, notRetry>>

\* part_006, cache wrapper of client.get:
\* while (!result.success && attempts < maxAttempts && retryConfig)
RetryLoop ==
    /\ req.pc = "loop"
    /\ IF req.attempts < client.maxRetries + 1
       THEN IF req.attempts + 1 > 1 /\ ~shouldRetry(client, req.error)
            THEN req' = [req EXCEPT !.pc = "done", !.attempts = @ + 1]
            ELSE req' = [req EXCEPT !.pc = "fetch", !.attempts = @ + 1]
       ELSE req' = [req EXCEPT !.pc = "done"]
    /\ UNCHANGED <<client, circuitBreakers, clockVars, notRetry>>

RetryTick == AdvanceClock /\ UNCHANGED <<client, req, circuitBreakers, notRetry>>

-----------------------------------------------------------------------------
(* C1: number of transport calls of a permanently failing request *)

\* the failure is one the retry configuration asks to retry
RetryEligible(cfg, f) ==
    \/ f.kind = "network" /\ cfg.retryOnNetworkError
    \/ f.kind = "status" /\ f.status \in DefaultRetryOnStatus

\* C1: with maxRetries = N, a request to an endpoint that fails permanently
\* with a retry-eligible failure has made exactly N+1 transport calls when
\* its failure result is returned to the caller.
C1_ExactlyNPlusOneCalls ==
    (req.pc = "done" /\ RetryEligible(client, req.failure))
        => req.calls = client.maxRetries + 1

\* what the two revisions do instead: createClient.ts never retries (its
\* handler is given a string, which shouldRetry refuses); part_006 retries
\* only in the cache wrapper, once unconditionally and then while the error
\* text reads like a network failure
RetryCallsMade ==
    req.pc = "done" =>
        IF client.variant = "createClient.ts" \/ ~client.cache
        THEN req.calls = 1
        ELSE IF shouldRetry(client, StringError(req.failure.text))
             THEN req.calls = client.maxRetries + 2
             ELSE req.calls = 2

NextRetry ==
    \/ ClientGetCall
    \/ FetchCall
    \/ RunErrorHandlers
    \/ RequestReturn
    \/ RetryLoop
    \/ RetryTick

-----------------------------------------------------------------------------
(* C14: which failures are retried *)

\* C14: a failed request is re-issued if and only if its failure is
\* eligible (a network failure with retryOnNetworkError, or a status in
\* retryOnStatus) and maxRetries >= 1: a failure with another status is
\* attempted exactly once, an eligible one more than once.
C14_RetryIffEligible ==
    req.pc = "done" =>
        (req.calls > 1 <=> (RetryEligible(client, req.failure) /\ client.maxRetries >= 1))

-----------------------------------------------------------------------------
(* C17: transport calls while the breaker is open *)

\* the breaker of the origin is Open and its cool-down has not elapsed
BreakerRefuses ==
    /\ BreakerStateOf(circuitBreakers, RetryOrigin) = "OPEN"
    /\ SinceLastFailure(circuitBreakers, RetryOrigin, now) <= BreakerTimeout

\* C17: while the breaker of an origin is Open and its cool-down has not
\* elapsed, no transport call is made to that origin, neither the first
\* attempt of a request nor a retry.
C17_NoCallWhileOpen ==
    [][ req'.calls = req.calls + 1 => ~BreakerRefuses ]_vars

\* what does hold: no call is re-issued by handleRetry while the breaker refuses
NoReissueWhileOpen ==
    [][ (req'.calls = req.calls + 1 /\ req.depth > 0) => ~BreakerRefuses ]_vars

InitReissue ==
    /\ client \in ReissueConfigs
    /\ req = IdleRequest

NextReissue ==
    \/ ClientRequestCall
    \/ FetchCall
    \/ RunErrorHandlers
    \/ RequestReturn

-----------------------------------------------------------------------------
(* C29: what a successful request does to the breaker *)

\* createClient(baseUrl, {retry}) with and without an error interceptor of
\* the application
BreakerClients == ReissueConfigs \cup {DefaultClient}

InitBreakerUse ==
    /\ client \in BreakerClients
    /\ req = IdleRequest

\* client.get(url) on an endpoint that answers 200 at the first call
ClientGetSucceeds ==
    /\ req.pc \in {"idle", "done"}
    /\ req' = [IdleRequest EXCEPT
                  !.pc = "fetch", !.failTimes = 0,
                  !.config = [method |-> "GET", headers |-> "none", body |-> "none"]]
    /\ UNCHANGED <<client, circuitBreakers, clockVars, notRetry>>

\* client.get(url) on an endpoint that fails its first call, or every call
ClientGetFails ==
    /\ req.pc \in {"idle", "done"}
    /\ \E f \in Failures, n \in FailTimes :
          req' = [IdleRequest EXCEPT
                     !.pc = "fetch", !.failure = f, !.failTimes = n,
                     !.config = [method |-> "GET", headers |-> "none", body |-> "none"]]
    /\ UNCHANGED <<client, circuitBreakers, clockVars, notRetry>>

NextBreakerUse ==
    \/ ClientGetSucceeds
    \/ ClientGetFails
    \/ FetchCall
    \/ RunErrorHandlers
    \/ RequestReturn
    \/ RetryTick

\* failures of the origin's breaker (0 when there is none)
FailuresOf(breakers, key) ==
    IF key \in DOMAIN breakers THEN breakers[key].failures ELSE 0

\* the breaker counts nothing and is not Open or Half-Open
ResetAndClosed(breakers, key) ==
    /\ FailuresOf(breakers, key) = 0
    /\ BreakerStateOf(breakers, key) \in {"ABSENT", "CLOSED"}

\* this step ends a transport call with a 2xx response: the first attempt
\* of a request (depth 0) or a call re-issued by handleRetry
SuccessReturns == req.pc = "return" /\ req.succeeded /\ req' # req

\* this step takes the breaker from Closed (or none) to Open
Opens ==
    /\ BreakerStateOf(circuitBreakers, RetryOrigin) \in {"ABSENT", "CLOSED"}
    /\ BreakerStateOf(circuitBreakers', RetryOrigin) = "OPEN"

\* C29: the breaker goes from Closed to Open only when its count of failures
\* since the last successful request reaches 10, and every successful
\* request, first attempt or retry, sets the count to 0 and the state to
\* Closed.
C29_SuccessResets ==
    [][ /\ Opens => FailuresOf(circuitBreakers', RetryOrigin) >= FailureThreshold
        /\ SuccessReturns => ResetAndClosed(circuitBreakers', RetryOrigin) ]_vars

\* what does hold: the breaker opens when its count reaches 10; a successful
\* retry resets it; a successful first attempt leaves it as it is
SuccessOfRetryResets ==
    [][ /\ Opens => FailuresOf(circuitBreakers', RetryOrigin) >= FailureThreshold
        /\ (SuccessReturns /\ req.depth > 0)
              => ResetAndClosed(circuitBreakers', RetryOrigin)
        /\ (SuccessReturns /\ req.depth = 0)
              => circuitBreakers' = circuitBreakers ]_vars

\* the breaker is Open although a request has just succeeded
OpenAfterSuccess ==
    /\ req.pc = "done" /\ req.ok
    /\ BreakerStateOf(circuitBreakers, RetryOrigin) = "OPEN"

-----------------------------------------------------------------------------
(* HttpClient.request with its before-, after- and error-interceptors        *)
(* (HttpClient.ts; part_002 has the same structure)                          *)

Methods == {"GET", "POST", "PUT", "PATCH", "DELETE"}

\* normalizeUrl returns the URL or throws `Invalid URL`
UrlKinds == {"wellformed", "malformed"}

\* what one call of an interceptor does
BeforeBehaviours == {"returnsConfig", "throws", "returnsUndefined"}
AfterBehaviours  == {"returnsData", "throws"}
ErrorBehaviours  ==
    {"returnsError", "throws", "returnsObject", "returnsUndefined", "returnsUnprintable"}

\* what fetch does: a 2xx response, another response, a rejection, an abort
TransportOutcomes == {"ok", "notOk", "networkError", "abort"}

\* the value an error interceptor hands on, by what String(value) does with
\* it: a string, an object ("[object Object]"), undefined ("undefined"), or
\* a value String cannot convert (Object.create(null), a throwing toString)
ErrorValues == {"string", "object", "undefined", "unprintable"}

StringThrows(value) == value = "unprintable"

NoResult == [kind |-> "none", hasStatus |-> FALSE, error |-> "none"]

\* a request descriptor: an object, with the before-handlers that have made
\* it what it is in the order they ran, or undefined
ConfigOfCaller == [kind |-> "object", marks |-> <<>>]

NotSent == [called |-> FALSE, config |-> ConfigOfCaller]

\* history of the before-handlers: ran lists the handlers called, got what
\* each was called with, returned what each returned; sent is what fetch was
\* called with, outcome what fetch did, afterRuns and errorRuns the calls of
\* runAfterHandlers and of runErrorHandlers
IdleHttp(nBefore, nAfter, nOnError) ==
    [pc |-> "idle", nBefore |-> nBefore, nAfter |-> nAfter, nOnError |-> nOnError,
     method |-> "GET", url |-> "wellformed", i |-> 1, config |-> "object",
     inTry |-> TRUE, value |-> "string", result |-> NoResult,
     unprintable |-> FALSE,
     marks |-> <<>>, ran |-> <<>>, got |-> <<>>, returned |-> <<>>, sent |-> NotSent,
     outcome |-> "none", afterRuns |-> 0, errorRuns |-> 0]

InitHttp ==
    \E nBefore \in 0..MaxHandlers, nAfter \in 0..MaxHandlers, nOnError \in 0..MaxHandlers :
        http = IdleHttp(nBefore, nAfter, nOnError)

\* get / post / put / patch / delete: request(url, config) up to runBeforeHandlers
HttpCall ==
    /\ http.pc \in {"idle", "done", "rejected"}
    /\ \E method \in Methods, url \in UrlKinds :
        LET h == [IdleHttp(http.nBefore, http.nAfter, http.nOnError) EXCEPT
                      !.method = method, !.url = url] IN
        \* normalizeUrl is called outside the try
        http' = IF url = "malformed" THEN [h EXCEPT !.pc = "rejected"]
                ELSE [h EXCEPT !.pc = "before"]
    /\ UNCHANGED notHttp

\* what handler i returns when called with config: the config with its own
\* change, or undefined; "threw" when it throws
HandlerReturns(b, i, config) ==
    CASE b = "returnsConfig" ->
            [kind |-> "object",
             marks |-> Append(IF config.kind = "object" THEN config.marks ELSE <<>>, i)]
      [] b = "returnsUndefined" -> [kind |-> "undefined", marks |-> <<>>]
      [] OTHER -> [kind |-> "threw", marks |-> <<>>]

\* mutant of ModifiedConfig: a handler that throws puts the caller's config back
ModifiedConfig_original(config, out) ==
    IF out.kind = "threw" THEN ConfigOfCaller ELSE out

\* modifiedConfig after `try { modifiedConfig = await handler(...) } catch {}`
ModifiedConfig(config, out) ==
    IF out.kind = "threw" THEN config ELSE out

\* runBeforeHandlers: one handler; a throw is caught and the config kept
BeforeHandler ==
    /\ http.pc = "before"
    /\ http.i <= http.nBefore
    /\ \E b \in BeforeBehaviours :
        LET config == [kind |-> http.config, marks |-> http.marks]
            out == HandlerReturns(b, http.i, config)
            modifiedConfig == ModifiedConfig(config, out)
        IN http' = [http EXCEPT
                    !.i = @ + 1,
                    !.config = modifiedConfig.kind,
                    !.marks = modifiedConfig.marks,
                    !.ran = Append(@, http.i),
                    !.got = Append(@, config),
                    !.returned = Append(@, out)]
    /\ UNCHANGED notHttp

\* the catch block of request: the error handlers run on err.message
CatchBlock(h) ==
    [h EXCEPT !.pc = "onError", !.i = 1, !.inTry = FALSE, !.value = "string",
              !.errorRuns = @ + 1]

\* after the before handlers: the headers are read off the config and fetch
\* is called and settles
Fetch ==
    /\ http.pc = "before"
    /\ http.i > http.nBefore
    /\ IF http.config = "undefined"
       \* finalConfig.headers throws a TypeError inside the try
       THEN http' = CatchBlock(http)
       ELSE \E t \in TransportOutcomes :
                LET h == [http EXCEPT
                            !.sent = [called |-> TRUE,
                                      config |-> [kind |-> http.config,
                                                  marks |-> http.marks]],
                            !.outcome = t]
                IN
                http' = CASE t = "ok" -> [h EXCEPT !.pc = "after", !.i = 1,
                                                   !.afterRuns = @ + 1]
                          [] t = "notOk" ->
                                [h EXCEPT !.pc = "onError", !.i = 1, !.inTry = TRUE,
                                          !.value = "string", !.errorRuns = @ + 1]
                          [] OTHER -> CatchBlock(h)
    /\ UNCHANGED notHttp

\* runAfterHandlers: one handler; a throw is caught and the data kept
AfterHandler ==
    /\ http.pc = "after"
    /\ http.i <= http.nAfter
    /\ \E b \in AfterBehaviours : http' = [http EXCEPT !.i = @ + 1]
    /\ UNCHANGED notHttp

\* return { success: true, data: processedData }
ReturnSuccess ==
    /\ http.pc = "after"
    /\ http.i > http.nAfter
    /\ http' = [http EXCEPT !.pc = "done",
                            !.result = [kind |-> "success", hasStatus |-> FALSE,
                                        error |-> "none"]]
    /\ UNCHANGED notHttp

\* runErrorHandlers: one handler; a throw is caught and the error kept
ErrorHandler ==
    /\ http.pc = "onError"
    /\ http.i <= http.nOnError
    /\ \E b \in ErrorBehaviours :
        http' = [http EXCEPT
                    !.i = @ + 1,
                    !.value = CASE b = "returnsObject" -> "object"
                                [] b = "returnsUndefined" -> "undefined"
                                [] b = "returnsUnprintable" -> "unprintable"
                                [] OTHER -> @,
                    !.unprintable = @ \/ b = "returnsUnprintable"]
    /\ UNCHANGED notHttp

\* String(processedError) throws: inside the try the catch block takes over,
\* inside the catch block the promise of request rejects
AfterStringThrows(inTry) == IF inTry THEN "onError" ELSE "rejected"

\* return { success: false, status?, error: String(processedError) }
ReturnFailure ==
    /\ http.pc = "onError"
    /\ http.i > http.nOnError
    /\ IF StringThrows(http.value)
       THEN http' = IF AfterStringThrows(http.inTry) = "onError"
                    THEN CatchBlock(http)
                    ELSE [http EXCEPT !.pc = "rejected"]
       ELSE http' = [http EXCEPT !.pc = "done",
                                 !.result = [kind |-> "failure", hasStatus |-> http.inTry,
                                             error |-> "string"]]
    /\ UNCHANGED notHttp

NextHttp ==
    \/ HttpCall
    \/ BeforeHandler
    \/ Fetch
    \/ AfterHandler
    \/ ErrorHandler
    \/ ReturnSuccess
    \/ ReturnFailure

\* C5: every call of get/post/put/patch/delete with a well-formed URL
\* settles by returning {success: true, data} or {success: false, status?,
\* error}; it never rejects, whatever the transport and whatever any before-,
\* after- or error-handler does.
C5_NeverRejects ==
    http.url = "wellformed" =>
        /\ http.pc # "rejected"
        /\ http.pc = "done" => http.result.kind \in {"success", "failure"}

\* what does hold: the call rejects only when an error handler has returned
\* a value that String cannot convert
RejectsOnlyOnUnprintableError ==
    (http.url = "wellformed" /\ http.pc = "rejected") => http.unprintable

-----------------------------------------------------------------------------
(* C22: the chain of before-handlers *)

\* what the last of the first k handlers that did not throw returned, the
\* caller's config when all of them threw
RECURSIVE LastGood(_, _)
LastGood(returned, k) ==
    IF k = 0 THEN ConfigOfCaller
    ELSE IF returned[k].kind = "threw" THEN LastGood(returned, k - 1)
    ELSE returned[k]

-----------------------------------------------------------------------------
(* C30: the phases of a request attempt *)

Settles == http.pc \in {"done", "rejected"} /\ http.url = "wellformed"

\* C30: an attempt goes through the before-handlers and the transport call
\* and then through exactly one chain, once: the after-handlers when the
\* response is 2xx, the error-handlers on another response or a transport
\* failure; then it settles.
C30_OneChainOnce ==
    Settles =>
        /\ http.sent.called
        /\ http.afterRuns + http.errorRuns = 1
        /\ http.afterRuns = 1 <=> http.outcome = "ok"

\* what does hold: the after-handlers run at most once, only after a 2xx
\* response and never beside the error-handlers; the error-handlers run
\* once or twice, and without a transport call when a before-handler has
\* returned undefined
ChainsOfAnAttempt ==
    Settles =>
        /\ http.afterRuns = (IF http.outcome = "ok" THEN 1 ELSE 0)
        /\ http.errorRuns = 0 <=> http.outcome = "ok"
        /\ http.errorRuns <= 2
        /\ http.errorRuns = 2 => (http.outcome = "notOk" /\ http.unprintable)
        /\ ~http.sent.called => http.config = "undefined"

-----------------------------------------------------------------------------
(* Request de-duplication in the cache-enabled client.get                    *)
(* (createClient.ts 305-371, part_006 388-495 and cleanupPendingRequests)    *)

\* the calls of client.get that can be in progress at once
Callers == {"g1", "g2", "g3"}

Urls == {"/x"}

\* JSON.stringify(headers || {})
HeaderSets == {"{}", "{Authorization}"}

\* `GET:${url}:${JSON.stringify(headers || {})}`
requestKey(url, headers) == <<"GET", url, headers>>

\* `${clientId}:${cacheKeyGenerator.generate('GET', url)}`
cacheKeyOf(url) == <<"GET", url>>

NoData == [ok |-> FALSE, from |-> "none"]

IdleGet ==
    [pc |-> "idle", url |-> "/x", headers |-> "{}", hit |-> NoData, seen |-> {},
     joined |-> "none", calls |-> 0, data |-> NoData]

InitDedup ==
    \E variant \in Variants :
        dedup = [variant |-> variant, pending |-> EmptyMap, fresh |-> EmptyMap,
                 get |-> [g \in Callers |-> IdleGet], cleared |-> FALSE]

KeyOf(w) == requestKey(w.url, w.headers)

\* the callers whose transport call for the key is in flight
InFlightFor(key) ==
    { o \in Callers : dedup.get[o].pc = "inflight" /\ KeyOf(dedup.get[o]) = key }

\* client.get(url, headers) up to `await cacheStorage.get(cacheKey)`
GetCall(g) ==
    /\ dedup.get[g].pc = "idle"
    /\ \E url \in Urls, headers \in HeaderSets :
        dedup' = [dedup EXCEPT !.get[g] =
            [IdleGet EXCEPT
                !.pc = "lookup", !.url = url, !.headers = headers,
                !.hit = IF cacheKeyOf(url) \in DOMAIN dedup.fresh
                        THEN dedup.fresh[cacheKeyOf(url)] ELSE NoData,
                !.seen = InFlightFor(requestKey(url, headers))]]
    /\ UNCHANGED notDedup

\* after the await: the cached response, the pending request, or a call of
\* originalGet whose promise is stored in pendingRequests
AfterLookup(g) ==
    /\ dedup.get[g].pc = "lookup"
    /\ LET w == dedup.get[g]
           key == KeyOf(w)
       IN
       IF w.hit.ok
       THEN dedup' = [dedup EXCEPT !.get[g] =
                        [w EXCEPT !.pc = "done", !.data = w.hit, !.hit = NoData]]
       ELSE IF key \in DOMAIN dedup.pending
       THEN dedup' = [dedup EXCEPT !.get[g] =
                        [w EXCEPT !.pc = "waiting", !.joined = dedup.pending[key]]]
       ELSE dedup' = [dedup EXCEPT
                        !.get[g] = [w EXCEPT !.pc = "inflight", !.calls = 1],
                        !.pending = MapSet(@, key, g)]
    /\ UNCHANGED notDedup

\* originalGet settles; a success is written to the cache, and in part_006 a
\* failure may be followed by another call of originalGet
TransportSettles(g) ==
    /\ dedup.get[g].pc = "inflight"
    /\ LET w == dedup.get[g] IN
       \/ dedup' = [dedup EXCEPT
                        !.get[g] = [w EXCEPT !.pc = "settling",
                                             !.data = [ok |-> TRUE, from |-> g]],
                        !.fresh = MapSet(@, cacheKeyOf(w.url), [ok |-> TRUE, from |-> g])]
       \/ dedup' = [dedup EXCEPT
                        !.get[g] = [w EXCEPT !.pc = "settling",
                                             !.data = [ok |-> FALSE, from |-> g]]]
       \* calls: 2 stands for two calls or more
       \/ /\ dedup.variant = "part_006"
          /\ w.calls < 2
          /\ dedup' = [dedup EXCEPT !.get[g] = [w EXCEPT !.calls = 2]]
    /\ UNCHANGED notDedup

\* mutant of AfterSettle: the entry is left in pendingRequests
AfterSettle_keepEntry(pending, key) == pending

\* .finally(() => pendingRequests.delete(requestKey))
AfterSettle(pending, key) == MapDelete(pending, key)

\* the promise stored in pendingRequests settles: the entry is deleted, and
\* the callers that were handed the promise have its result
PromiseSettles(g) ==
    /\ dedup.get[g].pc = "settling"
    /\ LET w == dedup.get[g] IN
       dedup' = [dedup EXCEPT
                    !.pending = AfterSettle(@, KeyOf(w)),
                    !.get = [c \in Callers |->
                                IF c = g THEN [w EXCEPT !.pc = "done"]
                                ELSE IF @[c].pc = "waiting" /\ @[c].joined = g
                                THEN [@[c] EXCEPT !.pc = "done", !.data = w.data]
                                ELSE @[c]]]
    /\ UNCHANGED notDedup

\* a cached response expires or is evicted
CacheEntryGoes ==
    /\ \E ck \in DOMAIN dedup.fresh : dedup' = [dedup EXCEPT !.fresh = MapDelete(@, ck)]
    /\ UNCHANGED notDedup

\* cleanupPendingRequests(): pendingRequests.clear()   (part_006 only)
CleanupPendingRequests ==
    /\ dedup.variant = "part_006"
    /\ dedup.pending # EmptyMap
    /\ dedup' = [dedup EXCEPT !.pending = EmptyMap, !.cleared = TRUE]
    /\ UNCHANGED notDedup

NextDedup ==
    \/ \E g \in Callers : GetCall(g)
    \/ \E g \in Callers : AfterLookup(g)
    \/ \E g \in Callers : TransportSettles(g)
    \/ \E g \in Callers : PromiseSettles(g)
    \/ CacheEntryGoes
    \/ CleanupPendingRequests

RequestKeys == { requestKey(url, headers) : url \in Urls, headers \in HeaderSets }

AtMostOneInFlight == \A key \in RequestKeys : Cardinality(InFlightFor(key)) <= 1

\* no entry of pendingRequests outlives its call
EntriesAreUnsettled ==
    \A key \in DOMAIN dedup.pending :
        dedup.get[dedup.pending[key]].pc \in {"inflight", "settling"}

\* C6 as stated: at any time at most one transport call is in flight per
\* (GET, url, headers) key; every identical GET issued while one is in flight
\* receives the result of that call; the pendingRequests entry of the key is
\* removed once the call settles.
C6_SharedInFlight ==
    /\ AtMostOneInFlight
    /\ \A g \in Callers :
        (dedup.get[g].pc = "done" /\ dedup.get[g].seen # {})
            => \E o \in dedup.get[g].seen :
                    /\ dedup.get[o].pc = "done"
                    /\ dedup.get[g].data = dedup.get[o].data
    /\ EntriesAreUnsettled

\* C6: a GET that misses the cache and finds a pendingRequests entry of its
\* key makes no transport call and receives the result of the call that
\* made the entry; a GET that makes no call and joins none is answered from
\* the cache; the entry is removed when the promise of its call settles; at
\* most one call per key is in flight unless cleanupPendingRequests() was
\* called.
C6_JoinedShareInFlight ==
    /\ ~dedup.cleared => AtMostOneInFlight
    /\ \A g \in Callers :
        LET w == dedup.get[g] IN
        /\ w.joined # "none" => w.calls = 0
        /\ (w.pc = "done" /\ w.joined = "none" /\ w.calls = 0) => w.data.ok
        /\ (w.pc = "done" /\ w.joined # "none")
            => /\ dedup.get[w.joined].pc = "done"
               /\ w.data = dedup.get[w.joined].data
        /\ (w.pc \in {"inflight", "settling"} /\ ~dedup.cleared)
            => (KeyOf(w) \in DOMAIN dedup.pending /\ dedup.pending[KeyOf(w)] = g)
    /\ EntriesAreUnsettled

C6_Witness ==
    \E g \in Callers :
        LET w == dedup.get[g] IN
        /\ w.pc = "done"
        /\ w.joined # "none"
        /\ w.seen = {w.joined}
        /\ w.data = [ok |-> TRUE, from |-> w.joined]
        /\ KeyOf(w) \notin DOMAIN dedup.pending

-----------------------------------------------------------------------------
(* CacheKeyGenerator.generate (cache.ts, both revisions)                     *)

ParamNames  == {"a", "b"}
ParamValues == {"1", "2"}

\* a query string: its name=value pairs in the order written
RECURSIVE QueriesUpTo(_)
QueriesUpTo(n) ==
    IF n = 0 THEN {<<>>}
    ELSE LET shorter == QueriesUpTo(n - 1) IN
         shorter \cup { Append(q, <<k, v>>) : q \in shorter, k \in ParamNames,
                                               v \in ParamValues }

Queries == QueriesUpTo(MaxParams)

\* a URL handed to generate: '/x?...', 'https://a.test/x?...', or a relative
\* path without a leading slash that begins with 'http', like 'httpbin/x?...'
UrlForms == {"relative", "absolute", "httpPrefixed"}

KeyUrls == [form : UrlForms, path : {"x"}, query : Queries]

\* method.toUpperCase()
toUpperCase(method) ==
    CASE method = "get" -> "GET" [] method = "post" -> "POST" [] OTHER -> method

\* a.localeCompare(b) < 0 on the parameter names
NameBefore(a, b) == a = "a" /\ b = "b"

\* Array.prototype.sort(([a], [b]) => a.localeCompare(b)): a stable sort on
\* the names, the values are not compared
RECURSIVE sortByName(_)
sortByName(q) ==
    IF Len(q) <= 1 THEN q
    ELSE LET rest == sortByName(Tail(q))
             first == Head(q)
             \* first goes behind the pairs of rest whose name is smaller
             n == Cardinality({ i \in 1..Len(rest) : NameBefore(rest[i][1], first[1]) })
         IN SubSeq(rest, 1, n) \o <<first>> \o SubSeq(rest, n + 1, Len(rest))

\* new URL(url) throws for a URL that starts with 'http' and is not absolute
Parses(url) == url.form # "httpPrefixed"

\* generate(method, url, body) with includeQueryParams: the key as the
\* method, the path and the parameters joined; the body of a non-GET appended
generate(method, url, body) ==
    LET m == toUpperCase(method)
        params == IF Parses(url) THEN sortByName(url.query) ELSE url.query
    IN [m |-> m, form |-> IF Parses(url) THEN "pathname" ELSE url.form,
        path |-> url.path, params |-> params,
        body |-> IF body # "none" /\ m # "GET" THEN body ELSE "none"]

\* generate(method, url, body) without includeQueryParams: the pathname of
\* an absolute URL, else the text before the first '?'
generateWithoutQuery(method, url, body) ==
    LET m == toUpperCase(method)
    IN [m |-> m, form |-> IF Parses(url) THEN "pathname" ELSE url.form,
        path |-> url.path, params |-> <<>>,
        body |-> IF body # "none" /\ m # "GET" THEN body ELSE "none"]

\* createCacheKeyGenerator(includeQueryParams).generate
generateOf(includeQueryParams, method, url, body) ==
    IF includeQueryParams THEN generate(method, url, body)
    ELSE generateWithoutQuery(method, url, body)

\* cacheConfig.includeQueryParams || true, the option being "true", "false"
\* or "undefined"
IncludeQueryParamsOr(option) == IF option = "true" THEN TRUE ELSE TRUE

\* the generator createClient builds for a cache-enabled client
cacheKeyGenerator(option, method, url, body) ==
    generateOf(IncludeQueryParamsOr(option), method, url, body)

NoKeyYet == [m |-> "", form |-> "", path |-> "", params |-> <<>>, body |-> "none"]

IdleKeygen(method, url, other, body) ==
    [method |-> method, url |-> url, other |-> other, body |-> body,
     done |-> FALSE, key |-> NoKeyYet, again |-> NoKeyYet, otherKey |-> NoKeyYet]

InitKeygen ==
    \E method \in {"GET", "get", "POST"}, url \in KeyUrls, other \in KeyUrls,
       body \in {"none", "b"} :
        /\ other.form = url.form
        /\ keygen = IdleKeygen(method, url, other, body)

\* generate is called: twice for url, once for the other URL
GenerateCall ==
    /\ ~keygen.done
    /\ keygen' = [keygen EXCEPT
                    !.done = TRUE,
                    !.key = generate(keygen.method, keygen.url, keygen.body),
                    !.again = generate(keygen.method, keygen.url, keygen.body),
                    !.otherKey = generate(keygen.method, keygen.other, keygen.body)]
    /\ UNCHANGED notKeygen

NextKeygen == GenerateCall

\* the number of times a pair occurs in a query
Occurrences(q, pair) == Cardinality({ i \in 1..Len(q) : q[i] = pair })

\* the same parameters, in whatever order
SameParameters(q1, q2) ==
    /\ Len(q1) = Len(q2)
    /\ \A k \in ParamNames, v \in ParamValues :
          Occurrences(q1, <<k, v>>) = Occurrences(q2, <<k, v>>)

DistinctNames(q) == \A i, j \in 1..Len(q) : q[i][1] = q[j][1] => i = j

-----------------------------------------------------------------------------
(* C20: the cache key of equal requests *)

\* C20: generate returns the same key on every call with the same inputs,
\* and two URLs with the same path whose query strings hold the same
\* parameters in a different order get the same key.
C20_KeyDeterminism ==
    keygen.done =>
        /\ keygen.again = keygen.key
        /\ ( /\ keygen.other.path = keygen.url.path
             /\ SameParameters(keygen.url.query, keygen.other.query) )
                => keygen.otherKey = keygen.key

\* what does hold: the keys are equal when the URL is parsed and no
\* parameter name occurs twice
KeyOfReorderedDistinctNames ==
    keygen.done =>
        /\ keygen.again = keygen.key
        /\ ( /\ Parses(keygen.url)
             /\ keygen.other.path = keygen.url.path
             /\ SameParameters(keygen.url.query, keygen.other.query)
             /\ DistinctNames(keygen.url.query) )
                => keygen.otherKey = keygen.key

-----------------------------------------------------------------------------
(* The cache wrappers of client.get, client.post, ... (createClient.ts       *)
(* 305-470, part_006 388-591), isExpired and isCacheableResponse (cache.ts)   *)

DefaultMaxAge == 300000

\* cache: {maxAge, cacheableMethods, cacheableStatusCodes}
WrapConfigs ==
    [maxAge : {0, BreakerTimeout}, methods : {{"GET"}, {"GET", "POST"}},
     codes : {{200}, {201}}]

\* the statuses the endpoint answers with
ResponseStatuses == {200, 201, 404}

\* response.ok
ResponseOk(status) == status >= 200 /\ status <= 299

\* a timestamp that is missing or NaN; the timestamps written are Date.now(),
\* which the model counts from the creation of the client, so that 0 is the
\* time of a write and not a missing timestamp
NaNStamp == -1

WrapUrl == [form |-> "relative", path |-> "x", query |-> <<>>]

NoEntry == [present |-> FALSE, timestamp |-> 0, method |-> "", actual |-> 0]

NoWrapCall ==
    [op |-> "none", hit |-> FALSE, calls |-> 0, status |-> 0, before |-> NoEntry, at |-> 0,
     url |-> WrapUrl, pathFresh |-> FALSE]

\* includeQueryParams is left out of the configuration unless said otherwise
IdleWrapper(cfg) ==
    [maxAge |-> cfg.maxAge, methods |-> cfg.methods, codes |-> cfg.codes,
     include |-> "undefined", store |-> EmptyMap, last |-> NoWrapCall]

InitWrap == \E cfg \in WrapConfigs : wrap = IdleWrapper(cfg)

\* isCacheableResponse(status, cacheableStatusCodes)
isCacheableResponse(status, cacheableStatusCodes) == status \in cacheableStatusCodes

\* isExpired(cached, maxAge) at Date.now() = t
isExpired(cached, maxAge, t) ==
    IF cached.timestamp = NaNStamp THEN TRUE
    ELSE t - cached.timestamp > maxAge

\* cacheConfig.maxAge || 5 * 60 * 1000
EffectiveMaxAge(maxAge) == IF maxAge # 0 THEN maxAge ELSE DefaultMaxAge

\* the entry written for a successful response: its status field is 200
\* whatever the response's status was, which is kept here for the properties
WrittenEntry(method, actual, t) ==
    [present |-> TRUE, timestamp |-> t, method |-> method, actual |-> actual]

\* the store after a call of method whose response has the status
StoreAfter(store, codes, key, method, status, t) ==
    IF ResponseOk(status) /\ isCacheableResponse(200, codes)
    THEN MapSet(store, key, WrittenEntry(method, status, t))
    ELSE store

EntryAt(store, key) == IF key \in DOMAIN store THEN store[key] ELSE NoEntry

\* history: an unexpired response of a GET to the path of url is stored
PathFresh(url) ==
    \E key \in DOMAIN wrap.store :
        /\ key.m = "GET" /\ key.path = url.path
        /\ ~isExpired(wrap.store[key], EffectiveMaxAge(wrap.maxAge), now)

\* client.get(url) of the cache-enabled client, with no other call in flight
WrappedGetOf(url) ==
    LET key == cacheKeyGenerator(wrap.include, "GET", url, "none")
        cached == EntryAt(wrap.store, key)
    IN
    IF cached.present /\ ~isExpired(cached, EffectiveMaxAge(wrap.maxAge), now)
    THEN /\ wrap' = [wrap EXCEPT !.last = [op |-> "get", hit |-> TRUE, calls |-> 0,
                                           status |-> 0, before |-> cached, at |-> now,
                                           url |-> url, pathFresh |-> PathFresh(url)]]
         /\ UNCHANGED <<clockVars, notWrap>>
    ELSE \E status \in ResponseStatuses :
         /\ wrap' = [wrap EXCEPT
                        !.store = StoreAfter(@, wrap.codes, key, "GET", status, now),
                        !.last = [op |-> "get", hit |-> FALSE, calls |-> 1,
                                  status |-> status, before |-> cached, at |-> now,
                                  url |-> url, pathFresh |-> PathFresh(url)]]
         /\ UNCHANGED <<clockVars, notWrap>>

WrappedGet == WrappedGetOf(WrapUrl)

\* client.post(url, body) of the cache-enabled client
WrappedPost ==
    LET key == cacheKeyGenerator(wrap.include, "POST", WrapUrl, "b") IN
    \E status \in ResponseStatuses :
        /\ wrap' = [wrap EXCEPT
                        !.store = StoreAfter(@, wrap.codes, key, "POST", status, now),
                        !.last = [op |-> "post", hit |-> FALSE, calls |-> 1,
                                  status |-> status, before |-> EntryAt(wrap.store, key),
                                  at |-> now, url |-> WrapUrl, pathFresh |-> FALSE]]
        /\ UNCHANGED <<clockVars, notWrap>>

\* an entry of the storage whose timestamp is not a number any more
CorruptTimestamp ==
    /\ \E key \in DOMAIN wrap.store :
        /\ wrap.store[key].timestamp # NaNStamp
        /\ wrap' = [wrap EXCEPT !.store[key].timestamp = NaNStamp]
    /\ UNCHANGED <<clockVars, notWrap>>

WrapTick == AdvanceClock /\ UNCHANGED <<wrap, notWrap>>

NextWrap ==
    \/ WrappedGet
    \/ WrappedPost
    \/ CorruptTimestamp
    \/ WrapTick

-----------------------------------------------------------------------------
(* C21: the cache-enabled client built with includeQueryParams *)

IncludeOptions == {"undefined", "true", "false"}

\* '/x?a=1' and '/x?a=2'
QueryUrls ==
    { [form |-> "relative", path |-> "x", query |-> q] :
        q \in {<< <<"a", "1">> >>, << <<"a", "2">> >>} }

\* createClient(base, {cache: {maxAge, includeQueryParams}})
InitQuery ==
    \E option \in IncludeOptions :
        wrap = [IdleWrapper([maxAge |-> BreakerTimeout, methods |-> {"GET"},
                             codes |-> {200}]) EXCEPT !.include = option]

WrappedGetQuery == \E url \in QueryUrls : WrappedGetOf(url)

NextQuery ==
    \/ WrappedGetQuery
    \/ WrapTick

\* C21: with includeQueryParams: false a GET is served from the unexpired
\* entry that a GET to the same path stored, whatever the two query strings.
C21_QueryIgnored ==
    (wrap.include = "false" /\ wrap.last.op = "get" /\ wrap.last.pathFresh)
        => wrap.last.hit

\* what does hold: whatever the option, a GET is served from the cache only
\* when a GET with the same parameters stored the entry
QueryAlwaysIncluded ==
    (wrap.last.op = "get" /\ wrap.last.hit) =>
        cacheKeyGenerator(wrap.include, "GET", wrap.last.url, "none")
            = generate("GET", wrap.last.url, "none")

-----------------------------------------------------------------------------
(* C18: when client.get answers from the cache *)

\* a valid entry that is not older than maxAge at time t
FreshWithin(entry, maxAge, t) ==
    /\ entry.present
    /\ entry.timestamp # NaNStamp
    /\ t - entry.timestamp <= maxAge

\* C18: a GET is answered from the cache, with no transport call, exactly
\* when a valid entry of its key exists with now - timestamp <= maxAge; an
\* older entry or one without a valid timestamp is not returned and a
\* transport call is made.
C18_FreshExactly ==
    wrap.last.op = "get" =>
        /\ wrap.last.hit <=> FreshWithin(wrap.last.before, wrap.maxAge, wrap.last.at)
        /\ wrap.last.calls = IF wrap.last.hit THEN 0 ELSE 1

\* what does hold: the rule with 5 minutes in the place of a maxAge of 0
FreshWithinEffectiveMaxAge ==
    wrap.last.op = "get" =>
        /\ wrap.last.hit <=> FreshWithin(wrap.last.before, EffectiveMaxAge(wrap.maxAge),
                                         wrap.last.at)
        /\ wrap.last.calls = IF wrap.last.hit THEN 0 ELSE 1

-----------------------------------------------------------------------------
(* C19: which responses are stored *)

\* C19: a response is stored only if its method is in cacheableMethods and
\* its status in cacheableStatusCodes, and an entry is read only if GET is
\* in cacheableMethods.
C19_SymmetricEligibility ==
    /\ \A key \in DOMAIN wrap.store :
          /\ wrap.store[key].method \in wrap.methods
          /\ wrap.store[key].actual \in wrap.codes
    /\ wrap.last.hit => "GET" \in wrap.methods

\* what does hold: every successful response of every method is stored when
\* 200 is in cacheableStatusCodes, and none is otherwise
StoredWhen200Listed ==
    /\ wrap.last.op # "none" =>
          LET key == generate(IF wrap.last.op = "get" THEN "GET" ELSE "POST", WrapUrl,
                              IF wrap.last.op = "get" THEN "none" ELSE "b")
          IN (wrap.last.calls = 1 /\ ResponseOk(wrap.last.status) /\ 200 \in wrap.codes)
                => /\ key \in DOMAIN wrap.store
                   /\ wrap.store[key].timestamp \in {wrap.last.at, NaNStamp}
    /\ 200 \notin wrap.codes => wrap.store = EmptyMap

-----------------------------------------------------------------------------
(* Token strings, secret keys, UTF-8 and the cipher: encryptToken and        *)
(* decryptToken (tokenUtils.ts)                                              *)

\* a string is a sequence of UTF-16 code units; "BOM" is U+FEFF, "HS" a lone
\* high surrogate and "FFFD" the replacement character
CodeUnits == {"a", "b", "r", "s", " ", "BOM", "HS", "FFFD"}

\* null, undefined and '' (the falsy values a token argument can take)
NullToken == <<>>

\* the token strings the store is called with
TokenStrings ==
    { <<>>, <<" ">>, <<"a">>, <<"BOM", "a">>, <<"a", "HS">> }

\* !s || s.trim() === ''   (trim removes white space, which includes U+FEFF)
IsBlankString(s) == \A i \in 1..Len(s) : s[i] \in {" ", "BOM"}

\* TextEncoder.encode of one code unit: a lone surrogate becomes U+FFFD
EncodeUnit(u) ==
    CASE u = "a" -> <<97>>
      [] u = "b" -> <<98>>
      [] u = "r" -> <<114>>
      [] u = "s" -> <<115>>
      [] u = " " -> <<32>>
      [] u = "BOM" -> <<239, 187, 191>>
      [] u = "HS" -> <<239, 191, 189>>
      [] u = "FFFD" -> <<239, 191, 189>>

\* TextEncoder.encode
RECURSIVE encode(_)
encode(s) == IF s = <<>> THEN <<>> ELSE EncodeUnit(Head(s)) \o encode(Tail(s))

\* the code unit of a UTF-8 sequence
DecodeUnit(bytes) ==
    CHOOSE u \in CodeUnits \ {"HS"} : EncodeUnit(u) = bytes

RECURSIVE DecodeBytes(_)
DecodeBytes(b) ==
    IF b = <<>> THEN <<>>
    ELSE IF Head(b) = 239
         THEN <<DecodeUnit(SubSeq(b, 1, 3))>> \o DecodeBytes(SubSeq(b, 4, Len(b)))
         ELSE <<DecodeUnit(<<Head(b)>>)>> \o DecodeBytes(Tail(b))

\* new TextDecoder().decode: ignoreBOM is false, so a leading U+FEFF is dropped
decode(b) ==
    LET s == DecodeBytes(b) IN
    IF s # <<>> /\ Head(s) = "BOM" THEN Tail(s) ELSE s

\* secret keys: two good ones, one too short, one of 32 blanks; "" is none
Keys == {"key-one", "key-two", "short", "blank"}

NoKey == ""

MinKeyLength == 32

KeyLength(k) ==
    CASE k = NoKey -> 0
      [] k = "short" -> 5
      [] OTHER -> MinKeyLength

\* !secretKey || secretKey.trim() === ''
KeyIsBlank(k) == k \in {NoKey, "blank"}

\* what a token item of localStorage holds: nothing (getItem gives null), the
\* empty string, or the JSON made by encryptToken.  AES-GCM is taken as
\* ideal: the data opens only under the key that made it and only while
\* intact; the random nonce, which no read depends on, is left out
NoItem    == [kind |-> "null",  key |-> "", bytes |-> <<>>, intact |-> TRUE]
EmptyItem == [kind |-> "empty", key |-> "", bytes |-> <<>>, intact |-> TRUE]

encryptToken(token, secretKey) ==
    IF IsBlankString(token) \/ KeyIsBlank(secretKey) \/ KeyLength(secretKey) < MinKeyLength
    THEN [ok |-> FALSE, value |-> NoItem]
    ELSE [ok |-> TRUE,
          value |-> [kind |-> "cipher", key |-> secretKey,
                     bytes |-> encode(token), intact |-> TRUE]]

decryptToken(item, secretKey) ==
    IF \/ item.kind # "cipher"
       \/ KeyIsBlank(secretKey) \/ KeyLength(secretKey) < MinKeyLength
       \/ ~item.intact
       \/ item.key # secretKey
    THEN [ok |-> FALSE, text |-> <<>>]
    ELSE [ok |-> TRUE, text |-> decode(item.bytes)]

-----------------------------------------------------------------------------
(* Token store (TokenManager, part_004): tokenStore, globalSecretKey and the *)
(* six localStorage items                                                    *)

\* numbers and the strings of numbers: null / undefined, the string '' and an
\* item that is not in localStorage
NullNum  == -1
EmptyStr == -2
Absent   == -3

\* JavaScript truthiness of a number or null
TruthyNum(n) == n # NullNum /\ n # 0

\* n?.toString() || ''
NumToString(n) == IF n = NullNum THEN EmptyStr ELSE n

\* parseInt of an item read from localStorage, null where the code maps the
\* missing or empty item to null
ParseInt(s) == IF s \in {EmptyStr, Absent} THEN NullNum ELSE s

EmptyStorage ==
    [accessToken |-> NoItem, refreshToken |-> NoItem,
     accessExpiresAt |-> Absent, refreshExpiresAt |-> Absent,
     accessToken_age |-> Absent, refreshToken_age |-> Absent]

EmptyTokenStore ==
    [accessToken |-> NoItem, refreshToken |-> NoItem,
     refreshExpiresAt |-> NullNum, accessExpiresAt |-> NullNum]

\* the store as one value: localStorage, tokenStore, globalSecretKey
Store(ls, mem, key) == [ls |-> ls, mem |-> mem, key |-> key]

\* ageInSeconds ? Date.now() + ageInSeconds * 1000 : null
ExpiresAt(ageInSeconds, t) ==
    IF TruthyNum(ageInSeconds) THEN t + ageInSeconds * 1000 ELSE NullNum

\* mutant of setGlobalSecretKey: the key is not looked at
setGlobalSecretKey_unchecked(S, secretKey) ==
    [ok |-> TRUE, S |-> [S EXCEPT !.key = secretKey]]

setGlobalSecretKey(S, secretKey) ==
    IF secretKey = NoKey \/ KeyLength(secretKey) < MinKeyLength
    THEN [ok |-> FALSE, S |-> S]
    ELSE [ok |-> TRUE, S |-> [S EXCEPT !.key = secretKey]]

setAccessToken(S, token, secretKey, ageInSeconds, t) ==
    LET enc == encryptToken(token, secretKey) IN
    IF secretKey = NoKey \/ KeyLength(secretKey) < MinKeyLength \/ ~enc.ok
    THEN [ok |-> FALSE, S |-> S]
    ELSE [ok |-> TRUE,
          S |-> [ls |-> [S.ls EXCEPT
                          !.accessToken = enc.value,
                          !.accessExpiresAt = NumToString(ExpiresAt(ageInSeconds, t)),
                          !.accessToken_age = IF TruthyNum(ageInSeconds)
                                              THEN ageInSeconds ELSE @],
                 mem |-> [S.mem EXCEPT
                          !.accessToken = enc.value,
                          !.accessExpiresAt = ExpiresAt(ageInSeconds, t)],
                 key |-> IF S.key = NoKey THEN secretKey ELSE S.key]]

setRefreshToken(S, token, secretKey, ageInSeconds, t) ==
    LET enc == encryptToken(token, secretKey) IN
    IF secretKey = NoKey \/ KeyLength(secretKey) < MinKeyLength \/ ~enc.ok
    THEN [ok |-> FALSE, S |-> S]
    ELSE [ok |-> TRUE,
          S |-> [ls |-> [S.ls EXCEPT
                          !.refreshToken = enc.value,
                          !.refreshExpiresAt = NumToString(ExpiresAt(ageInSeconds, t)),
                          !.refreshToken_age = IF TruthyNum(ageInSeconds)
                                               THEN ageInSeconds ELSE @],
                 mem |-> [S.mem EXCEPT
                          !.refreshToken = enc.value,
                          !.refreshExpiresAt = ExpiresAt(ageInSeconds, t)],
                 key |-> IF S.key = NoKey THEN secretKey ELSE S.key]]

\* mutant of setTokens: the access token is written as soon as it is
\* encrypted, before the refresh token is
setTokens_accessFirst(S, accessToken, secretKey, refreshToken, accessAge, refreshAge, t) ==
    LET encA == encryptToken(accessToken, secretKey)
        encR == IF refreshToken # NullToken
                THEN encryptToken(refreshToken, secretKey)
                ELSE [ok |-> TRUE, value |-> EmptyItem]
        written == [S EXCEPT !.ls.accessToken = encA.value, !.mem.accessToken = encA.value]
    IN
    IF secretKey = NoKey \/ KeyLength(secretKey) < MinKeyLength \/ ~encA.ok
    THEN [ok |-> FALSE, S |-> S]
    ELSE IF ~encR.ok THEN [ok |-> FALSE, S |-> written]
    ELSE [ok |-> TRUE,
          S |-> [ls |-> [S.ls EXCEPT
                          !.accessToken = encA.value,
                          !.refreshToken = encR.value,
                          !.accessExpiresAt = NumToString(ExpiresAt(accessAge, t)),
                          !.refreshExpiresAt = NumToString(ExpiresAt(refreshAge, t)),
                          !.accessToken_age = IF TruthyNum(accessAge) THEN accessAge ELSE @,
                          !.refreshToken_age = IF TruthyNum(refreshAge) THEN refreshAge ELSE @],
                 mem |-> [accessToken |-> encA.value,
                          refreshToken |-> encR.value,
                          accessExpiresAt |-> ExpiresAt(accessAge, t),
                          refreshExpiresAt |-> ExpiresAt(refreshAge, t)],
                 key |-> secretKey]]

\* setTokens: both encryptions first, then every write in one synchronous run
setTokens(S, accessToken, secretKey, refreshToken, accessAge, refreshAge, t) ==
    LET encA == encryptToken(accessToken, secretKey)
        encR == IF refreshToken # NullToken
                THEN encryptToken(refreshToken, secretKey)
                ELSE [ok |-> TRUE, value |-> EmptyItem]
    IN
    IF secretKey = NoKey \/ KeyLength(secretKey) < MinKeyLength \/ ~encA.ok \/ ~encR.ok
    THEN [ok |-> FALSE, S |-> S]
    ELSE [ok |-> TRUE,
          S |-> [ls |-> [S.ls EXCEPT
                          !.accessToken = encA.value,
                          !.refreshToken = encR.value,
                          !.accessExpiresAt = NumToString(ExpiresAt(accessAge, t)),
                          !.refreshExpiresAt = NumToString(ExpiresAt(refreshAge, t)),
                          !.accessToken_age = IF TruthyNum(accessAge) THEN accessAge ELSE @,
                          !.refreshToken_age = IF TruthyNum(refreshAge) THEN refreshAge ELSE @],
                 mem |-> [accessToken |-> encA.value,
                          refreshToken |-> encR.value,
                          accessExpiresAt |-> ExpiresAt(accessAge, t),
                          refreshExpiresAt |-> ExpiresAt(refreshAge, t)],
                 key |-> secretKey]]

\* expiresAt && expiresAt !== '' ? Date.now() >= parseInt(expiresAt) : false
\* mutant of isAccessTokenExpired: the stored expiry is never looked at
isAccessTokenExpired_never(S, t) == FALSE

isAccessTokenExpired(S, t) ==
    IF S.ls.accessExpiresAt \notin {Absent, EmptyStr}
    THEN t >= ParseInt(S.ls.accessExpiresAt) ELSE FALSE

isRefreshTokenExpired(S, t) ==
    IF S.ls.refreshExpiresAt \notin {Absent, EmptyStr}
    THEN t >= ParseInt(S.ls.refreshExpiresAt) ELSE FALSE

\* mutant of readToken: a failure of decryptToken is not caught
readToken_uncaught(encryptedToken, key) ==
    IF encryptedToken.kind # "cipher" \/ key = NoKey
    THEN [threw |-> FALSE, value |-> NullToken]
    ELSE LET d == decryptToken(encryptedToken, key) IN
         [threw |-> ~d.ok, value |-> d.text]

\* the body of getAccessToken and getRefreshToken: null for a missing or
\* empty item or no key, null from the catch when decryptToken throws
readToken(encryptedToken, key) ==
    IF encryptedToken.kind # "cipher" \/ key = NoKey
    THEN [threw |-> FALSE, value |-> NullToken]
    ELSE LET d == decryptToken(encryptedToken, key) IN
         IF d.ok THEN [threw |-> FALSE, value |-> d.text]
         ELSE [threw |-> FALSE, value |-> NullToken]

\* the token read back, NullToken for null
getAccessToken(S) == readToken(S.ls.accessToken, S.key).value

getRefreshToken(S) == readToken(S.ls.refreshToken, S.key).value

getAccessExpiresAt(S) == ParseInt(S.ls.accessExpiresAt)

getRefreshExpiresAt(S) == ParseInt(S.ls.refreshExpiresAt)

\* mutant of logout: the items of localStorage are left
logout_memoryOnly(S) == Store(S.ls, EmptyTokenStore, NoKey)

logout(S) == Store(EmptyStorage, EmptyTokenStore, NoKey)

\* the store the variables hold
TheStore == Store(localStorage, tokenStore, globalSecretKey)

PutStore(S) ==
    /\ localStorage' = S.ls
    /\ tokenStore' = S.mem
    /\ globalSecretKey' = S.key

\* the ttl, in seconds, that tokens are stored with
TtlSeconds == 30

\* ttl arguments: null, 0 and 30 seconds
AgeInputs == {NullNum, 0, TtlSeconds}

NoTokenCall ==
    [op |-> "none", ok |-> TRUE, access |-> NullToken, refresh |-> NullToken,
     key |-> NoKey]

\* history: when each token was last stored with a ttl, and the ttl
NoStamp == [set |-> FALSE, t0 |-> 0, ttl |-> 0]

StampOf(ageInSeconds, t) ==
    IF ageInSeconds = NullNum THEN NoStamp
    ELSE [set |-> TRUE, t0 |-> t, ttl |-> ageInSeconds]

InitToken ==
    /\ localStorage = EmptyStorage
    /\ tokenStore = EmptyTokenStore
    /\ globalSecretKey = NoKey
    /\ tokLast = NoTokenCall
    /\ stamp = [access |-> NoStamp, refresh |-> NoStamp]
    /\ plain = [access |-> NullToken, refresh |-> NullToken]

SetGlobalSecretKeyWith(keys) ==
    \E k \in keys :
        LET r == setGlobalSecretKey(TheStore, k) IN
        /\ PutStore(r.S)
        /\ tokLast' = [NoTokenCall EXCEPT !.op = "setGlobalSecretKey", !.ok = r.ok,
                                          !.key = k]
        /\ UNCHANGED <<stamp, plain, clockVars, notToken>>

SetGlobalSecretKeyCall == SetGlobalSecretKeyWith(Keys)

\* setAccessToken called with a token, a key and a ttl of the given sets
SetAccessTokenWith(tokens, keys, ages) ==
    \E token \in tokens, k \in keys, age \in ages :
        LET r == setAccessToken(TheStore, token, k, age, now) IN
        /\ PutStore(r.S)
        /\ tokLast' = [NoTokenCall EXCEPT !.op = "setAccessToken", !.ok = r.ok, !.key = k]
        /\ stamp' = IF r.ok THEN [stamp EXCEPT !.access = StampOf(age, now)] ELSE stamp
        /\ plain' = IF r.ok THEN [plain EXCEPT !.access = token] ELSE plain
        /\ UNCHANGED <<clockVars, notToken>>

SetRefreshTokenWith(tokens, keys, ages) ==
    \E token \in tokens, k \in keys, age \in ages :
        LET r == setRefreshToken(TheStore, token, k, age, now) IN
        /\ PutStore(r.S)
        /\ tokLast' = [NoTokenCall EXCEPT !.op = "setRefreshToken", !.ok = r.ok, !.key = k]
        /\ stamp' = IF r.ok THEN [stamp EXCEPT !.refresh = StampOf(age, now)] ELSE stamp
        /\ plain' = IF r.ok THEN [plain EXCEPT !.refresh = token] ELSE plain
        /\ UNCHANGED <<clockVars, notToken>>

SetTokensWith(tokens, keys, refreshTokens, ages) ==
    \E access \in tokens, k \in keys, refresh \in refreshTokens,
       accessAge \in ages, refreshAge \in ages :
        LET r == setTokens(TheStore, access, k, refresh, accessAge, refreshAge, now) IN
        /\ PutStore(r.S)
        /\ tokLast' = [op |-> "setTokens", ok |-> r.ok, access |-> access,
                       refresh |-> refresh, key |-> k]
        /\ stamp' = IF r.ok
                    THEN [access |-> StampOf(accessAge, now),
                          refresh |-> IF refresh # NullToken
                                      THEN StampOf(refreshAge, now) ELSE NoStamp]
                    ELSE stamp
        /\ plain' = IF r.ok THEN [access |-> access, refresh |-> refresh] ELSE plain
        /\ UNCHANGED <<clockVars, notToken>>

\* the calls that vary the token and the key, stored without a ttl
SetAccessTokenCall ==
    SetAccessTokenWith({<<"a">>, <<" ">>}, {"key-one", "key-two", "short"}, {NullNum})

SetRefreshTokenCall ==
    SetRefreshTokenWith({<<"r">>, <<" ">>}, {"key-one", "key-two", "short"}, {NullNum})

SetTokensCall ==
    SetTokensWith(TokenStrings, Keys, {NullToken, <<"r">>}, {NullNum})

\* the calls that vary the ttl, of one token under one key
SetAccessTokenTtlCall == SetAccessTokenWith({<<"a">>}, {"key-one"}, AgeInputs)

SetRefreshTokenTtlCall == SetRefreshTokenWith({<<"r">>}, {"key-one"}, AgeInputs)

SetTokensTtlCall == SetTokensWith({<<"a">>}, {"key-one"}, {NullToken, <<"r">>}, AgeInputs)

\* history: tokLast keeps the tokens that were stored when logout was called
LogoutCall ==
    /\ PutStore(logout(TheStore))
    /\ tokLast' = [NoTokenCall EXCEPT !.op = "logout", !.access = plain.access,
                                      !.refresh = plain.refresh]
    /\ stamp' = [access |-> NoStamp, refresh |-> NoStamp]
    /\ plain' = [access |-> NullToken, refresh |-> NullToken]
    /\ UNCHANGED <<clockVars, notToken>>

\* something outside the library alters a stored record
TamperCall ==
    \E item \in {"accessToken", "refreshToken"} :
        /\ localStorage[item].kind = "cipher"
        /\ localStorage[item].intact
        /\ localStorage' = [localStorage EXCEPT ![item].intact = FALSE]
        /\ tokLast' = [NoTokenCall EXCEPT !.op = "tamper"]
        /\ UNCHANGED <<tokenStore, globalSecretKey, stamp, plain, clockVars, notToken>>

\* time passes by half a ttl, so that a token stored with a ttl is read
\* before, at and after its expiry
TokenTick ==
    /\ ticks < MaxTicks
    /\ now' = now + TtlSeconds * 500
    /\ ticks' = ticks + 1
    /\ UNCHANGED <<localStorage, tokenStore, globalSecretKey, tokLast, stamp, plain, notToken>>

NextToken ==
    \/ SetGlobalSecretKeyCall
    \/ SetAccessTokenCall
    \/ SetRefreshTokenCall
    \/ SetTokensCall
    \/ LogoutCall
    \/ TamperCall

\* the calls with a key that is good, too short or missing
KeyInputs == {"key-one", "short", NoKey}

SetGlobalSecretKeyKeyed == SetGlobalSecretKeyWith(KeyInputs \cup {"key-two"})

SetAccessTokenKeyed == SetAccessTokenWith({<<"a">>}, KeyInputs, {NullNum, TtlSeconds})

SetRefreshTokenKeyed == SetRefreshTokenWith({<<"r">>}, KeyInputs, {NullNum, TtlSeconds})

SetTokensKeyed ==
    SetTokensWith({<<"a">>}, KeyInputs, {NullToken, <<"r">>}, {NullNum, TtlSeconds})

\* getAccessToken(): nothing is written
GetAccessTokenCall ==
    LET r == readToken(localStorage.accessToken, globalSecretKey) IN
    /\ tokLast' = [NoTokenCall EXCEPT !.op = "getAccessToken", !.ok = ~r.threw,
                                      !.access = r.value]
    /\ UNCHANGED <<storeVars, stamp, plain, clockVars, notToken>>

\* getRefreshToken(): nothing is written
GetRefreshTokenCall ==
    LET r == readToken(localStorage.refreshToken, globalSecretKey) IN
    /\ tokLast' = [NoTokenCall EXCEPT !.op = "getRefreshToken", !.ok = ~r.threw,
                                      !.refresh = r.value]
    /\ UNCHANGED <<storeVars, stamp, plain, clockVars, notToken>>

NextKeys ==
    \/ SetGlobalSecretKeyKeyed
    \/ SetAccessTokenKeyed
    \/ SetRefreshTokenKeyed
    \/ SetTokensKeyed
    \/ GetAccessTokenCall
    \/ GetRefreshTokenCall
    \/ LogoutCall
    \/ TamperCall

NextExpiry ==
    \/ SetAccessTokenTtlCall
    \/ SetRefreshTokenTtlCall
    \/ SetTokensTtlCall
    \/ LogoutCall
    \/ TokenTick

-----------------------------------------------------------------------------
(* C32: the cache of the client and logout *)

\* the application logs in: setTokens with a good key
SessionLogin == SetTokensWith({<<"a">>}, {"key-one"}, {<<"r">>}, {NullNum})

\* logout(): the token store is cleared; globalCacheStorages and the storage
\* of the client are not named in it.  history: wrap.last tells that the
\* latest call was logout
SessionLogout ==
    /\ PutStore(logout(TheStore))
    /\ tokLast' = [NoTokenCall EXCEPT !.op = "logout", !.access = plain.access,
                                      !.refresh = plain.refresh]
    /\ stamp' = [access |-> NoStamp, refresh |-> NoStamp]
    /\ plain' = [access |-> NullToken, refresh |-> NullToken]
    /\ wrap' = [wrap EXCEPT !.last = [NoWrapCall EXCEPT !.op = "logout"]]
    /\ UNCHANGED <<clockVars, breakerVars, cacheVars, retryVars, authVars, pipeVars,
                   keygen, cancel>>

NextSession ==
    \/ SessionLogin
    \/ WrappedGet
    \/ SessionLogout
    \/ WrapTick

\* C32: a GET that follows logout is not served from the cache: whatever
\* was cached before the logout is gone.
C32_LogoutClearsCache ==
    [][ (wrap.last.op = "logout" /\ wrap'.last.op = "get") => ~wrap'.last.hit ]_vars

\* what does hold: logout leaves the storage of the client as it is
LogoutLeavesCache ==
    [][ wrap'.last.op = "logout" => wrap'.store = wrap.store ]_vars

\* a GET right after logout has been served from the cache
HitAfterLogout ==
    /\ wrap.last.op = "get" /\ wrap.last.hit
    /\ tokLast.op = "logout"

-----------------------------------------------------------------------------
(* C26: the store after logout *)

\* C26: after logout the six items are gone from localStorage, the fields
\* of tokenStore and the key are null, and getAccessToken and
\* getRefreshToken return null until a token is stored again.
C26_LogoutClears ==
    /\ tokLast.op = "logout" =>
          /\ localStorage = EmptyStorage
          /\ tokenStore = EmptyTokenStore
          /\ globalSecretKey = NoKey
    /\ plain.access = NullToken => getAccessToken(TheStore) = NullToken
    /\ plain.refresh = NullToken => getRefreshToken(TheStore) = NullToken

\* logout has been called on a store that held both tokens
C26_Witness ==
    /\ tokLast.op = "logout"
    /\ tokLast.access # NullToken /\ tokLast.refresh # NullToken
    /\ getAccessToken(TheStore) = NullToken

-----------------------------------------------------------------------------
(* C27: reading a token that cannot be read *)

\* the item is missing or empty, there is no key, or the record does not
\* open under the key
Unreadable(item, key) ==
    \/ item.kind # "cipher"
    \/ key = NoKey
    \/ ~item.intact
    \/ item.key # key

\* C27: getAccessToken and getRefreshToken do not throw; they return null
\* when no token is stored, when no key is configured or when the record
\* cannot be decrypted, and they leave the store as it is.
C27_ReadNeverThrows ==
    [][ /\ tokLast'.op = "getAccessToken" =>
              /\ tokLast'.ok
              /\ storeVars' = storeVars
              /\ Unreadable(localStorage.accessToken, globalSecretKey)
                    => tokLast'.access = NullToken
        /\ tokLast'.op = "getRefreshToken" =>
              /\ tokLast'.ok
              /\ storeVars' = storeVars
              /\ Unreadable(localStorage.refreshToken, globalSecretKey)
                    => tokLast'.refresh = NullToken ]_vars

\* getAccessToken has returned null for a record that was altered
C27_Witness ==
    /\ tokLast.op = "getAccessToken"
    /\ tokLast.ok
    /\ tokLast.access = NullToken
    /\ localStorage.accessToken.kind = "cipher"
    /\ ~localStorage.accessToken.intact
    /\ globalSecretKey # NoKey

-----------------------------------------------------------------------------
(* C28: a key that is missing or too short *)

KeyOperations == {"setGlobalSecretKey", "setAccessToken", "setRefreshToken", "setTokens"}

\* C28: setGlobalSecretKey, setAccessToken, setRefreshToken and setTokens
\* fail when the key is missing or shorter than 32 characters, and then
\* leave the key in memory and everything stored as it was.
C28_WeakKeyRejected ==
    [][ ( /\ tokLast'.op \in KeyOperations
          /\ (tokLast'.key = NoKey \/ KeyLength(tokLast'.key) < MinKeyLength) )
            => /\ ~tokLast'.ok
               /\ storeVars' = storeVars ]_vars

\* setTokens has failed for a short key on a store that holds a token and a key
C28_Witness ==
    /\ tokLast.op = "setTokens"
    /\ tokLast.key = "short"
    /\ ~tokLast.ok
    /\ localStorage.accessToken.kind = "cipher"
    /\ globalSecretKey = "key-one"

-----------------------------------------------------------------------------
(* C38: the key a token is stored under and the key it is read with *)

\* C38: right after a setAccessToken(t, k) that succeeded getAccessToken()
\* returns t, and right after a setRefreshToken(r, k) that succeeded
\* getRefreshToken() returns r.
C38_LastSetReadable ==
    /\ (tokLast.op = "setAccessToken" /\ tokLast.ok)
          => getAccessToken(TheStore) = plain.access
    /\ (tokLast.op = "setRefreshToken" /\ tokLast.ok)
          => getRefreshToken(TheStore) = plain.refresh

\* what does hold: the token is readable when no key or the same key was in
\* memory before the call; under another key it is stored and reads as null
ReadableUnderSameKey ==
    [][ /\ (tokLast'.op = "setAccessToken" /\ tokLast'.ok) =>
              getAccessToken(TheStore)' =
                  IF globalSecretKey \in {NoKey, tokLast'.key}
                  THEN plain'.access ELSE NullToken
        /\ (tokLast'.op = "setRefreshToken" /\ tokLast'.ok) =>
              getRefreshToken(TheStore)' =
                  IF globalSecretKey \in {NoKey, tokLast'.key}
                  THEN plain'.refresh ELSE NullToken ]_vars

\* a token has been stored under one key while another key is in memory
StoredUnderOtherKey ==
    /\ tokLast.op = "setAccessToken" /\ tokLast.ok
    /\ localStorage.accessToken.kind = "cipher"
    /\ localStorage.accessToken.key # globalSecretKey
    /\ getAccessToken(TheStore) = NullToken

-----------------------------------------------------------------------------
(* C31: a setTokens that fails *)

\* setTokens with tokens that encrypt and tokens that do not, under keys that
\* are good, too short, blank and missing
SetTokensMixed ==
    SetTokensWith({<<"a">>, <<" ">>}, {"key-one", "short", "blank", NoKey},
                  {NullToken, <<"r">>, <<" ">>}, {NullNum, TtlSeconds})

NextWrites ==
    \/ SetTokensMixed
    \/ SetGlobalSecretKeyKeyed
    \/ SetAccessTokenKeyed
    \/ SetRefreshTokenKeyed
    \/ LogoutCall

\* the arguments of the call are such that an encryption fails or the key
\* is refused
CannotStore(call) ==
    \/ call.key = NoKey \/ KeyLength(call.key) < MinKeyLength
    \/ KeyIsBlank(call.key)
    \/ IsBlankString(call.access)
    \/ call.refresh # NullToken /\ IsBlankString(call.refresh)

-----------------------------------------------------------------------------
(* C7: expiry of a token stored with a ttl *)

ExpiryFollowsStamp(s, expired) ==
    s.set =>
        /\ (now < s.t0 + s.ttl * 1000 => ~expired)
        /\ (now > s.t0 + s.ttl * 1000 => expired)

\* C7: after a token is stored with ttl = T seconds at time t0, its
\* is...Expired() is false at every time before t0 + T*1000 ms and true at
\* every time after it, until the token is overwritten or logout is called.
C7_ExpiryMonotone ==
    /\ ExpiryFollowsStamp(stamp.access, isAccessTokenExpired(TheStore, now))
    /\ ExpiryFollowsStamp(stamp.refresh, isRefreshTokenExpired(TheStore, now))

\* the same for the ttls the code does store an expiry for (T # 0)
ExpiryMonotoneForNonZeroTtl ==
    /\ stamp.access.ttl # 0
        => ExpiryFollowsStamp(stamp.access, isAccessTokenExpired(TheStore, now))
    /\ stamp.refresh.ttl # 0
        => ExpiryFollowsStamp(stamp.refresh, isRefreshTokenExpired(TheStore, now))

-----------------------------------------------------------------------------
(* C8: round trip of a token through the encrypted store *)

\* the key is one the claim calls valid
ValidKeyLength(k) == KeyLength(k) >= MinKeyLength

\* C8: for every token string t and every key k of length >= 32, setTokens
\* of t under k succeeds, decryptToken of the stored record under k gives
\* exactly t, and getAccessToken() / getRefreshToken() give the stored
\* values; a read under another key or of a tampered record gives null,
\* never another plaintext.  (Blank tokens and blank keys, which
\* encryptToken refuses, are not counted among the tokens and keys.)
C8_RoundTrip ==
    /\ (tokLast.op = "setTokens" /\ ValidKeyLength(tokLast.key)
            /\ ~KeyIsBlank(tokLast.key) /\ ~IsBlankString(tokLast.access))
        => /\ tokLast.ok
           /\ decryptToken(localStorage.accessToken, tokLast.key)
                = [ok |-> TRUE, text |-> tokLast.access]
           /\ getAccessToken(TheStore) = tokLast.access
           /\ getRefreshToken(TheStore) = tokLast.refresh
    /\ getAccessToken(TheStore) \in {NullToken, plain.access}
    /\ getRefreshToken(TheStore) \in {NullToken, plain.refresh}
    /\ (localStorage.accessToken.kind = "cipher"
          /\ (~localStorage.accessToken.intact
                \/ localStorage.accessToken.key # globalSecretKey))
        => getAccessToken(TheStore) = NullToken

\* what does hold: a token that is not blank, has no lone surrogate and does
\* not start with U+FEFF, stored by setTokens under a key of length >= 32
\* that is not blank, reads back as itself; a read under another key or of
\* a tampered record gives null
WellFormedToken(t) ==
    /\ ~IsBlankString(t)
    /\ \A i \in 1..Len(t) : t[i] # "HS"
    /\ Head(t) # "BOM"

RoundTripOfWellFormed ==
    /\ (tokLast.op = "setTokens" /\ ValidKeyLength(tokLast.key)
            /\ ~KeyIsBlank(tokLast.key) /\ WellFormedToken(tokLast.access))
        => /\ tokLast.ok
           /\ getAccessToken(TheStore) = tokLast.access
           /\ getRefreshToken(TheStore) = tokLast.refresh
    /\ (localStorage.accessToken.kind = "cipher"
          /\ (~localStorage.accessToken.intact
                \/ localStorage.accessToken.key # globalSecretKey))
        => getAccessToken(TheStore) = NullToken

-----------------------------------------------------------------------------
(* Authentication middleware: createAuthMiddleware / withAuth / redirectToLogin *)
(* (AuthMiddleware.ts), tryRefreshToken (tokenUtils.ts) and the client's      *)
(* getLoginURL / getRefreshTokenURL (part_003)                                *)

\* the invocations of withAuth that can be in progress
Procs == {"w1", "w2"}

DefaultMiddleware ==
    [secretKey |-> "key-one", loginUrl |-> "/login", refreshUrl |-> "/refresh"]

\* createAuthMiddleware(client, secretKey?): the key given, left out or too
\* short, on a client built with or without a login URL and a refresh URL
Middlewares ==
    { DefaultMiddleware,
      [DefaultMiddleware EXCEPT !.secretKey = NoKey],
      [DefaultMiddleware EXCEPT !.secretKey = "short"],
      [DefaultMiddleware EXCEPT !.loginUrl = ""],
      [DefaultMiddleware EXCEPT !.refreshUrl = ""] }

\* what the refresh endpoint answers: a failure (not ok, no accessToken,
\* fetch rejecting), or an access token with or without a refresh token
RefreshAnswers ==
    { [ok |-> FALSE, accessToken |-> NullToken, refreshToken |-> NullToken] }
    \cup [ok : {TRUE}, accessToken : {<<"b">>, <<" ">>},
          refreshToken : {NullToken, <<"r">>, <<"s">>}]

\* what the caller's request function does: return a success result, a
\* failure result or the result {success: false, status: 403} of the clients
\* that return their failures, or throw Error('HTTP error! status: 403 ...'),
\* Error('HTTP error! status: 401 ...') or another error
RequestOutcomes ==
    {"success", "failure", "failure403", "throw403", "throw401", "throwOther"}

\* the request function returned a result (return await requestFn(authHeaders))
Returns(outcome) == outcome \in {"success", "failure", "failure403"}

\* error instanceof Error && error.message.includes('HTTP error! status: 403')
isForbiddenError(outcome) == outcome = "throw403"

AuthErrors ==
    { "No authentication tokens available",
      "Refresh token expired",
      "Session expired - both tokens are invalid",
      "Token refresh failed",
      "Token refresh failed after 403 error",
      "No valid refresh token available for retry" }

IdleInvocation ==
    [pc |-> "idle", accessToken |-> NullToken, refreshToken |-> NullToken,
     ageInSeconds |-> NullNum, refreshAgeInSeconds |-> NullNum,
     branch |-> "none", newAccessToken |-> NullToken,
     refreshTokenToUse |-> NullToken, shouldUpdate |-> FALSE,
     calculated |-> NullNum, before |-> [token |-> NullToken, expiresAt |-> Absent],
     bearer |-> NullToken, outcomes |-> <<>>, refreshCalls |-> 0,
     requestCalls |-> 0, logouts |-> 0, err |-> "", refreshExpired |-> FALSE]

InitAuth ==
    /\ middleware \in Middlewares
    /\ active \in {{"w1"}}
    /\ auth = [p \in Procs |-> IdleInvocation]
    /\ location = "/app"

calculateRefreshTokenExpiration(shouldUpdate, newAgeInSeconds, existingExpiresAt, t) ==
    IF shouldUpdate /\ TruthyNum(newAgeInSeconds)
    THEN t + newAgeInSeconds * 1000
    ELSE IF TruthyNum(existingExpiresAt) THEN existingExpiresAt
    ELSE NullNum

\* mutant of redirectToLogin: navigates but leaves the store as it is
redirectToLogin_keepTokens(S, loc) ==
    [S |-> S,
     location |-> IF middleware.loginUrl # "" THEN middleware.loginUrl ELSE loc]

\* redirectToLogin: logout(loginUrl) or logout(); the store and the location left
redirectToLogin(S, loc) ==
    [S |-> logout(S),
     location |-> IF middleware.loginUrl # "" THEN middleware.loginUrl ELSE loc]

\* the error withAuth fails with when the refresh, the storing of its tokens
\* or the request after it throws: that of the catch block of its branch
RefreshFailure(branch) ==
    IF branch = "403" THEN "Token refresh failed after 403 error"
    ELSE "Token refresh failed"

\* parseInt(localStorage.getItem(name) || '') || null
ReadAge(item) == IF TruthyNum(ParseInt(item)) THEN ParseInt(item) ELSE NullNum

\* withAuth has settled: its local variables are gone, what it did remains
Settled(w, pc, message) ==
    [IdleInvocation EXCEPT !.pc = pc, !.err = message, !.outcomes = w.outcomes,
                           !.refreshCalls = w.refreshCalls,
                           !.requestCalls = w.requestCalls,
                           !.logouts = w.logouts,
                           !.refreshExpired = w.refreshExpired]

\* withAuth fails after redirectToLogin, called n times in a row
FailWithLogouts(p, w, message, n) ==
    LET r == redirectToLogin(TheStore, location) IN
    /\ PutStore(r.S)
    /\ location' = r.location
    /\ auth' = [auth EXCEPT ![p] =
                    Settled([w EXCEPT !.logouts = @ + n], "failed", message)]

FailWithLogout(p, w, message) == FailWithLogouts(p, w, message, 1)

\* mutant of AfterRetryThrows: a 403 of the retried request starts another refresh
AfterRetryThrows_refreshAgain(outcome, branch) ==
    IF isForbiddenError(outcome) /\ branch = "403" THEN "refreshing" ELSE "failed"

\* the catch around the refresh, the storing and the retried request (lines
\* 103-107, 160-164, 226-230): whatever was thrown, withAuth fails
AfterRetryThrows(outcome, branch) == "failed"

\* tryRefreshToken(client, refreshToken) is called
CallRefresh(p, branch, w) ==
    /\ auth' = [auth EXCEPT ![p] = [w EXCEPT !.pc = "refreshing", !.branch = branch,
                                             !.refreshCalls = @ + 1]]
    /\ UNCHANGED <<localStorage, tokenStore, globalSecretKey, location>>

\* mutant of CallRequest: the header carries the access token read at the start
CallRequest_firstToken(p, pc, token, w) ==
    auth' = [auth EXCEPT ![p] = [w EXCEPT !.pc = pc, !.bearer = w.accessToken,
                                          !.requestCalls = @ + 1]]

\* requestFn({Authorization: `Bearer ${token}`}) is called
CallRequest(p, pc, token, w) ==
    auth' = [auth EXCEPT ![p] = [w EXCEPT !.pc = pc, !.bearer = token,
                                          !.requestCalls = @ + 1]]

\* withAuth(requestFn): setGlobalSecretKey(secretKey), then getAccessToken()
WithAuthCall(p) ==
    /\ p \in active
    /\ auth[p].pc \in {"idle", "returned", "failed"}
    /\ IF middleware.secretKey # NoKey
       THEN LET r == setGlobalSecretKey(TheStore, middleware.secretKey) IN
            IF r.ok
            THEN /\ PutStore(r.S)
                 /\ auth' = [auth EXCEPT ![p] = [IdleInvocation EXCEPT
                                !.pc = "gotAccess",
                                !.accessToken = getAccessToken(r.S)]]
            ELSE /\ auth' = [auth EXCEPT ![p] = [IdleInvocation EXCEPT
                                !.pc = "failed",
                                !.err = "Secret key must be at least 32 characters long"]]
                 /\ UNCHANGED <<localStorage, tokenStore, globalSecretKey>>
       ELSE /\ auth' = [auth EXCEPT ![p] = [IdleInvocation EXCEPT
                                !.pc = "gotAccess",
                                !.accessToken = getAccessToken(TheStore)]]
            /\ UNCHANGED <<localStorage, tokenStore, globalSecretKey>>
    /\ UNCHANGED <<location, middleware, active, clockVars, notAuth>>

\* let refreshToken = await getRefreshToken()
GetRefreshTokenStep(p) ==
    /\ auth[p].pc = "gotAccess"
    /\ auth' = [auth EXCEPT ![p].pc = "gotRefresh",
                            ![p].refreshToken = getRefreshToken(TheStore)]
    /\ UNCHANGED <<localStorage, tokenStore, globalSecretKey, location,
                   middleware, active, clockVars, notAuth>>

\* the checks of the tokens, up to the first call of tryRefreshToken or requestFn
CheckTokensStep(p) ==
    /\ auth[p].pc = "gotRefresh"
    /\ LET w == [auth[p] EXCEPT
                    !.ageInSeconds = ReadAge(localStorage.accessToken_age),
                    !.refreshAgeInSeconds = ReadAge(localStorage.refreshToken_age),
                    \* kept for the properties: the refresh token read is expired
                    !.refreshExpired = /\ auth[p].refreshToken # NullToken
                                       /\ isRefreshTokenExpired(TheStore, now)]
           S == TheStore
       IN
       IF w.accessToken = NullToken /\ w.refreshToken = NullToken
       THEN FailWithLogout(p, w, "No authentication tokens available")
       ELSE IF w.accessToken = NullToken
       THEN IF isRefreshTokenExpired(S, now)
            THEN FailWithLogout(p, w, "Refresh token expired")
            ELSE CallRefresh(p, "pre", w)
       ELSE IF isAccessTokenExpired(S, now)
       THEN IF w.refreshToken = NullToken \/ isRefreshTokenExpired(S, now)
            THEN FailWithLogout(p, w, "Session expired - both tokens are invalid")
            ELSE CallRefresh(p, "pre", w)
       ELSE /\ CallRequest(p, "requesting1", w.accessToken, w)
            /\ UNCHANGED <<localStorage, tokenStore, globalSecretKey, location>>
    /\ UNCHANGED <<middleware, active, clockVars, notAuth>>

\* tryRefreshToken settles; on success the new tokens are handed to setTokens
RefreshSettles(p) ==
    /\ auth[p].pc = "refreshing"
    /\ \E answer \in RefreshAnswers :
        LET w == auth[p]
            \* data.refreshToken || refreshToken
            returned == IF answer.refreshToken # NullToken
                        THEN answer.refreshToken ELSE w.refreshToken
            shouldUpdate == returned # w.refreshToken
            existing == getRefreshExpiresAt(TheStore)
        IN
        IF ~answer.ok \/ middleware.refreshUrl = ""
        THEN FailWithLogout(p, w, RefreshFailure(w.branch))
        ELSE IF middleware.secretKey = NoKey
        \* the else of lines 98-102 throws into the catch of lines 103-107
        THEN FailWithLogouts(p, w, RefreshFailure(w.branch), 2)
        ELSE /\ auth' = [auth EXCEPT ![p] = [w EXCEPT
                    !.pc = "settingTokens",
                    !.newAccessToken = answer.accessToken,
                    !.refreshTokenToUse = returned,
                    !.shouldUpdate = shouldUpdate,
                    !.calculated = calculateRefreshTokenExpiration(
                                       shouldUpdate, w.refreshAgeInSeconds, existing, now),
                    !.before = [token |-> getRefreshToken(TheStore),
                                expiresAt |-> localStorage.refreshExpiresAt]]]
             /\ UNCHANGED <<localStorage, tokenStore, globalSecretKey, location>>
    /\ UNCHANGED <<middleware, active, clockVars, notAuth>>

\* await setTokens(...): its writes (or its failure)
SetTokensStep(p) ==
    /\ auth[p].pc = "settingTokens"
    /\ LET w == auth[p]
           r == setTokens(TheStore, w.newAccessToken, middleware.secretKey,
                          w.refreshTokenToUse, w.ageInSeconds,
                          IF w.shouldUpdate THEN w.refreshAgeInSeconds ELSE NullNum,
                          now)
       IN
       IF r.ok
       THEN /\ PutStore(r.S)
            /\ auth' = [auth EXCEPT ![p].pc = "restore"]
            /\ UNCHANGED location
       ELSE FailWithLogout(p, w, RefreshFailure(w.branch))
    /\ UNCHANGED <<middleware, active, clockVars, notAuth>>

\* after setTokens: the calculated expiry is written, requestFn is called
RestoreExpiryStep(p) ==
    /\ auth[p].pc = "restore"
    /\ LET w == auth[p] IN
       /\ localStorage' = IF TruthyNum(w.calculated)
                          THEN [localStorage EXCEPT
                                   !.refreshExpiresAt = NumToString(w.calculated)]
                          ELSE localStorage
       /\ CallRequest(p, "requesting2", w.newAccessToken, w)
    /\ UNCHANGED <<tokenStore, globalSecretKey, location,
                   middleware, active, clockVars, notAuth>>

\* requestFn settles, called with the stored access token
RequestSettles(p) ==
    /\ auth[p].pc = "requesting1"
    /\ \E outcome \in RequestOutcomes :
        LET w == [auth[p] EXCEPT !.outcomes = Append(@, outcome)] IN
        IF Returns(outcome)
        THEN /\ auth' = [auth EXCEPT ![p] = Settled(w, "returned", "")]
             /\ UNCHANGED <<localStorage, tokenStore, globalSecretKey, location>>
        ELSE IF isForbiddenError(outcome)
        THEN IF /\ w.refreshToken # NullToken
                /\ middleware.secretKey # NoKey
                /\ ~isRefreshTokenExpired(TheStore, now)
             THEN CallRefresh(p, "403", w)
             ELSE LET r == redirectToLogin(TheStore, location) IN
                  /\ PutStore(r.S)
                  /\ location' = r.location
                  /\ auth' = [auth EXCEPT ![p] =
                        Settled([w EXCEPT !.logouts = @ + 1], "failed",
                                "No valid refresh token available for retry")]
        ELSE /\ auth' = [auth EXCEPT ![p] = Settled(w, "failed", "request error")]
             /\ UNCHANGED <<localStorage, tokenStore, globalSecretKey, location>>
    /\ UNCHANGED <<middleware, active, clockVars, notAuth>>

\* requestFn settles, called with the refreshed access token
RetrySettles(p) ==
    /\ auth[p].pc = "requesting2"
    /\ \E outcome \in RequestOutcomes :
        LET w == [auth[p] EXCEPT !.outcomes = Append(@, outcome)] IN
        IF Returns(outcome)
        THEN /\ auth' = [auth EXCEPT ![p] = Settled(w, "returned", "")]
             /\ UNCHANGED <<localStorage, tokenStore, globalSecretKey, location>>
        ELSE IF AfterRetryThrows(outcome, w.branch) = "failed"
        THEN LET r == redirectToLogin(TheStore, location) IN
             /\ PutStore(r.S)
             /\ location' = r.location
             /\ auth' = [auth EXCEPT ![p] =
                    Settled([w EXCEPT !.logouts = @ + 1], "failed",
                            RefreshFailure(w.branch))]
        ELSE CallRefresh(p, w.branch, w)
    /\ UNCHANGED <<middleware, active, clockVars, notAuth>>

\* the application logs in: setTokens with an access and a refresh token
LoginCall ==
    /\ \A p \in Procs : auth[p].pc \in {"idle", "returned", "failed"}
    /\ \E refresh \in {NullToken, <<"r">>}, accessAge \in {NullNum, TtlSeconds},
          refreshAge \in {NullNum, TtlSeconds} :
        LET r == setTokens(TheStore, <<"a">>, "key-one", refresh, accessAge,
                           refreshAge, now) IN
        PutStore(r.S)
    /\ UNCHANGED <<auth, location, middleware, active, clockVars, notAuth>>

\* the application stores a refresh token alone: setRefreshToken
StoreRefreshTokenCall ==
    /\ \A p \in Procs : auth[p].pc \in {"idle", "returned", "failed"}
    /\ \E refreshAge \in {NullNum, TtlSeconds} :
        LET r == setRefreshToken(TheStore, <<"r">>, "key-one", refreshAge, now) IN
        PutStore(r.S)
    /\ UNCHANGED <<auth, location, middleware, active, clockVars, notAuth>>

AuthTick ==
    /\ ticks < MaxTicks
    /\ now' = now + TtlSeconds * 500
    /\ ticks' = ticks + 1
    /\ UNCHANGED <<localStorage, tokenStore, globalSecretKey, auth, location,
                   middleware, active, notAuth>>

NextAuth ==
    \/ LoginCall
    \/ StoreRefreshTokenCall
    \/ \E p \in Procs : WithAuthCall(p)
    \/ \E p \in Procs : GetRefreshTokenStep(p)
    \/ \E p \in Procs : CheckTokensStep(p)
    \/ \E p \in Procs : RefreshSettles(p)
    \/ \E p \in Procs : SetTokensStep(p)
    \/ \E p \in Procs : RestoreExpiryStep(p)
    \/ \E p \in Procs : RequestSettles(p)
    \/ \E p \in Procs : RetrySettles(p)
    \/ AuthTick

-----------------------------------------------------------------------------
(* C2: a request that throws 403 before and after the refresh *)

Threw403Twice(w) ==
    /\ Len(w.outcomes) >= 2
    /\ w.outcomes[1] = "throw403"
    /\ w.outcomes[2] = "throw403"

-----------------------------------------------------------------------------
(* C9: the stored refresh token and its expiry across a refresh *)

\* the refresh of invocation p has stored its tokens
Refreshed(p) == auth[p].pc \in {"restore", "requesting2"}

RotationRule(p) ==
    LET w == auth[p] IN
    IF w.shouldUpdate
    THEN /\ getRefreshToken(TheStore) = w.refreshTokenToUse
         /\ w.refreshTokenToUse # w.before.token
         /\ TruthyNum(w.refreshAgeInSeconds)
                => getRefreshExpiresAt(TheStore) >= w.calculated
    ELSE /\ getRefreshToken(TheStore) = w.before.token
         /\ getRefreshExpiresAt(TheStore) = ParseInt(w.before.expiresAt)

\* C9: after a successful refresh, if the endpoint returned a refresh token
\* different from the current one, the stored refresh token and its stored
\* expiry are both replaced; if it returned none or the same one, the stored
\* refresh token and its refreshExpiresAt are the same as before the
\* refresh, at every observable point during and after the refresh.
C9_RotationAtEveryPoint ==
    \A p \in Procs : Refreshed(p) => RotationRule(p)

\* what does hold: the rule once withAuth has resumed after setTokens and
\* written the calculated expiry back
RotationAfterRestore ==
    \A p \in Procs : auth[p].pc = "requesting2" => RotationRule(p)

RotationAfterRestore_Witness ==
    \E p \in Procs :
        /\ auth[p].pc = "requesting2"
        /\ ~auth[p].shouldUpdate
        /\ TruthyNum(ParseInt(auth[p].before.expiresAt))

-----------------------------------------------------------------------------
(* C10: logout before an authentication error *)

\* invocation p fails in this step with an authentication error
FailsWithAuthError(p) ==
    /\ auth[p].pc # "failed"
    /\ auth'[p].pc = "failed"
    /\ auth'[p].err \in AuthErrors

\* C10: whenever withAuth fails with an authentication error, logout has
\* been executed before the error reaches the caller: the stored tokens,
\* expiries and ages and the in-memory key are cleared, and the location is
\* the login URL if one is configured and is left alone otherwise.
C10_LogoutBeforeAuthError ==
    [][ \A p \in Procs :
          FailsWithAuthError(p) =>
              /\ localStorage' = EmptyStorage
              /\ tokenStore' = EmptyTokenStore
              /\ globalSecretKey' = NoKey
              /\ location' = IF middleware.loginUrl # ""
                             THEN middleware.loginUrl ELSE location ]_vars

C10_Witness ==
    \E p \in Procs :
        /\ auth[p].pc = "failed"
        /\ auth[p].err = "Session expired - both tokens are invalid"
        /\ auth[p].logouts = 1
        /\ localStorage = EmptyStorage
        /\ globalSecretKey = NoKey
        /\ location = "/login"

\* every authentication error is one withAuth can fail with
AuthErrorSeen(message) == \E p \in Procs : auth[p].pc = "failed" /\ auth[p].err = message

-----------------------------------------------------------------------------
(* C11: what the request function is called with *)

\* invocation p calls the request function in this step
CallsRequestFn(p) == auth'[p].requestCalls = auth[p].requestCalls + 1

\* C11: withAuth calls the request function only with a non-null access
\* token, which is either the stored access token, not expired at the call,
\* or the access token of a successful refresh, stored by then; an
\* invocation that finds neither an access nor a refresh token calls
\* redirectToLogin and fails without calling the request function.
C11_BearerIsValidToken ==
    [][ \A p \in Procs :
          /\ CallsRequestFn(p) =>
                /\ auth'[p].bearer # NullToken
                /\ auth'[p].bearer = getAccessToken(TheStore)
                /\ \/ /\ auth'[p].pc = "requesting1"
                      /\ auth'[p].refreshCalls = 0
                      /\ getAccessExpiresAt(TheStore) # NullNum
                            => now < getAccessExpiresAt(TheStore)
                   \/ /\ auth'[p].pc = "requesting2"
                      /\ auth'[p].refreshCalls = 1
                      /\ auth'[p].bearer = auth[p].newAccessToken
          /\ ( /\ auth[p].pc = "gotRefresh"
               /\ auth[p].accessToken = NullToken
               /\ auth[p].refreshToken = NullToken
               /\ auth'[p] # auth[p] ) =>
                /\ auth'[p].pc = "failed"
                /\ auth'[p].err = "No authentication tokens available"
                /\ auth'[p].requestCalls = 0
                /\ auth'[p].logouts = 1
                /\ localStorage' = EmptyStorage ]_vars

C11_Witness ==
    \E p \in Procs :
        /\ auth[p].pc = "requesting2"
        /\ auth[p].branch = "pre"
        /\ auth[p].accessToken = NullToken
        /\ auth[p].bearer = <<"b">>
        /\ getAccessToken(TheStore) = <<"b">>

-----------------------------------------------------------------------------
(* C12: an expired refresh token beside a valid access token *)

\* C12: whenever the stored refresh token is expired when withAuth checks
\* the tokens, the invocation ends in redirectToLogin and a failure, also
\* when the access token is present and not expired: it never returns the
\* result of the request function.
C12_ExpiredRefreshIsTerminal ==
    \A p \in Procs :
        (auth[p].refreshExpired /\ auth[p].pc \in {"returned", "failed"}) =>
            /\ auth[p].pc = "failed"
            /\ auth[p].logouts >= 1

\* what does hold: with no access token, or an expired one, an expired
\* refresh token ends the invocation before any call is made
ExpiredRefreshWithoutAccess ==
    \A p \in Procs :
        (auth[p].refreshExpired /\ auth[p].requestCalls = 0
            /\ auth[p].pc \notin {"idle", "gotAccess", "gotRefresh"}) =>
            /\ auth[p].pc = "failed"
            /\ auth[p].logouts = 1
            /\ auth[p].refreshCalls = 0

-----------------------------------------------------------------------------
(* C13: a 401 or 403 of the request function *)

Unauthorized == {"failure403", "throw403", "throw401"}

\* the request function of invocation p, called with the stored access
\* token, ends in this step with outcome o
EndsWith(p, o) ==
    /\ auth[p].pc = "requesting1"
    /\ auth'[p].outcomes = Append(auth[p].outcomes, o)

\* C13: when the request function ends in a 401 or 403 failure, thrown or
\* returned, and a non-expired refresh token is stored, withAuth calls
\* tryRefreshToken (and then the request function again).
C13_RefreshOnUnauthorized ==
    [][ \A p \in Procs : \A o \in Unauthorized :
          ( /\ EndsWith(p, o)
            /\ getRefreshToken(TheStore) # NullToken
            /\ ~isRefreshTokenExpired(TheStore, now) ) =>
                /\ auth'[p].pc = "refreshing"
                /\ auth'[p].refreshCalls = auth[p].refreshCalls + 1 ]_vars

\* what does hold: the refresh follows a thrown 403, when the middleware
\* has a secret key
RefreshOnThrown403 ==
    [][ \A p \in Procs :
          ( /\ EndsWith(p, "throw403")
            /\ middleware.secretKey # NoKey
            /\ getRefreshToken(TheStore) # NullToken
            /\ ~isRefreshTokenExpired(TheStore, now) ) =>
                /\ auth'[p].pc = "refreshing"
                /\ auth'[p].refreshCalls = auth[p].refreshCalls + 1 ]_vars

-----------------------------------------------------------------------------
(* Cancellation: the signal of the caller, the timeout hook of setTimeout,   *)
(* the controller that request registers in timeoutControllers, and          *)
(* cancelAllRequests (HttpClient.ts, part_002)                               *)

ClientTimeout == 30000

\* timeout: 0 builds the client without the hook
TimeoutOptions == {0, ClientTimeout}

Reqs == {"r1", "r2"}

\* position "idle", "inflight" (fetch is pending), "aborting" (the signal
\* given to fetch has been aborted, fetch is about to reject) or "settled";
\* caller is the signal the caller passed: "none", "live" or "aborted";
\* signal says whose signal fetch was given: "caller", "timeout" (the
\* controller of the hook) or "request" (the registered controller);
\* timer is the timer of the hook: "none", "armed", "cleared" or "fired"
IdleTransfer ==
    [pc |-> "idle", caller |-> "none", signal |-> "none", timer |-> "none",
     armedAt |-> 0, id |-> 0, result |-> "none"]

IdleCanceller(timeout) ==
    [timeout |-> timeout, reqs |-> [r \in Reqs |-> IdleTransfer],
     timeoutControllers |-> EmptyMap, cancelCalls |-> 0]

InitCancel == \E timeout \in TimeoutOptions : cancel = IdleCanceller(timeout)

\* `${config.method}-${fullUrl}-${Date.now()}` of a GET to one URL
requestId(t) == t

\* finalConfig.signal || controller.signal, finalConfig being what the
\* timeout hook, when there is one, made of the caller's config
SignalOfFetch(timeout, caller) ==
    IF timeout # 0 THEN "timeout"
    ELSE IF caller # "none" THEN "caller"
    ELSE "request"

\* client.fetch(url, {signal}) or client.get(url): the hook runs, the
\* controller is registered and fetch is called
StartTransfer(r) ==
    /\ cancel.reqs[r].pc = "idle"
    /\ \E caller \in {"none", "live"} :
        cancel' = [cancel EXCEPT
            !.reqs[r] = [pc |-> "inflight", caller |-> caller,
                         signal |-> SignalOfFetch(cancel.timeout, caller),
                         timer |-> IF cancel.timeout # 0 THEN "armed" ELSE "none",
                         armedAt |-> now, id |-> requestId(now), result |-> "none"],
            !.timeoutControllers = MapSet(@, requestId(now), r)]
    /\ UNCHANGED <<clockVars, notCancel>>

\* the request after an abort of the signal of the given owner
Aborted(t, owner) ==
    IF t.pc = "inflight" /\ t.signal = owner THEN [t EXCEPT !.pc = "aborting"] ELSE t

\* the caller aborts its signal while fetch is pending: the listener of the
\* hook clears the timer
CallerAborts(r) ==
    /\ cancel.reqs[r].pc = "inflight"
    /\ cancel.reqs[r].caller = "live"
    /\ cancel' = [cancel EXCEPT
            !.reqs[r] = Aborted([@ EXCEPT !.caller = "aborted",
                                          !.timer = IF @ = "armed" THEN "cleared" ELSE @],
                                "caller")]
    /\ UNCHANGED <<clockVars, notCancel>>

\* the timer of the hook fires: controller.abort() of the hook's controller
TimerFires(r) ==
    /\ cancel.reqs[r].timer = "armed"
    /\ now - cancel.reqs[r].armedAt >= cancel.timeout
    /\ cancel' = [cancel EXCEPT !.reqs[r] = Aborted([@ EXCEPT !.timer = "fired"], "timeout")]
    /\ UNCHANGED <<clockVars, notCancel>>

\* cancelAllRequests(): every registered controller is aborted, the registry
\* cleared
CancelAllRequests ==
    /\ \E r \in Reqs : cancel.reqs[r].pc = "inflight"
    /\ cancel.cancelCalls = 0
    /\ LET registered == { cancel.timeoutControllers[id] : id \in DOMAIN cancel.timeoutControllers }
       IN cancel' = [cancel EXCEPT
            !.reqs = [r \in Reqs |-> IF r \in registered THEN Aborted(@[r], "request")
                                     ELSE @[r]],
            !.timeoutControllers = EmptyMap,
            !.cancelCalls = @ + 1]
    /\ UNCHANGED <<clockVars, notCancel>>

\* fetch resolves with a response: the controller is taken off the registry
TransportAnswers(r) ==
    /\ cancel.reqs[r].pc = "inflight"
    /\ \E result \in {"success", "failure"} :
        cancel' = [cancel EXCEPT
            !.reqs[r] = [@ EXCEPT !.pc = "settled", !.result = result],
            !.timeoutControllers = MapDelete(@, cancel.reqs[r].id)]
    /\ UNCHANGED <<clockVars, notCancel>>

\* fetch rejects with the AbortError: the catch block of request
AbortSettles(r) ==
    /\ cancel.reqs[r].pc = "aborting"
    /\ cancel' = [cancel EXCEPT
            !.reqs[r] = [@ EXCEPT !.pc = "settled", !.result = "failure"],
            !.timeoutControllers = MapDelete(@, cancel.reqs[r].id)]
    /\ UNCHANGED <<clockVars, notCancel>>

CancelTick == AdvanceClock /\ UNCHANGED <<cancel, notCancel>>

NextCancel ==
    \/ \E r \in Reqs : StartTransfer(r)
    \/ \E r \in Reqs : CallerAborts(r)
    \/ \E r \in Reqs : TimerFires(r)
    \/ CancelAllRequests
    \/ \E r \in Reqs : TransportAnswers(r)
    \/ \E r \in Reqs : AbortSettles(r)
    \/ CancelTick

-----------------------------------------------------------------------------
(* C23: the caller aborts its signal *)

CallerAbortsNow(r) ==
    /\ cancel.reqs[r].pc = "inflight"
    /\ cancel.reqs[r].caller = "live"
    /\ cancel'.reqs[r].caller = "aborted"

\* C23: when the caller aborts the signal it passed while the transport call
\* is in flight, the transport call is aborted (and the request then settles
\* with a failure), with and without a timeout on the client.
C23_CallerAbortAborts ==
    [][ \A r \in Reqs : CallerAbortsNow(r) => cancel'.reqs[r].pc = "aborting" ]_vars

\* what does hold: the abort of the caller reaches fetch on a client without
\* a timeout, and only clears the timer on a client with one
CallerAbortWithoutTimeout ==
    [][ \A r \in Reqs : CallerAbortsNow(r) =>
            IF cancel.timeout = 0 THEN cancel'.reqs[r].pc = "aborting"
            ELSE cancel'.reqs[r].pc = "inflight" /\ cancel'.reqs[r].timer = "cleared" ]_vars

-----------------------------------------------------------------------------
(* C24: cancelAllRequests *)

\* C24: when cancelAllRequests returns, the transport call of every request
\* that was in flight has been aborted and timeoutControllers is empty.
C24_CancelAllAborts ==
    [][ cancel'.cancelCalls = cancel.cancelCalls + 1 =>
            /\ cancel'.timeoutControllers = EmptyMap
            /\ \A r \in Reqs : cancel.reqs[r].pc = "inflight"
                                  => cancel'.reqs[r].pc = "aborting" ]_vars

\* what does hold: the registry is emptied, and the requests aborted are the
\* registered ones that were given the signal of the registered controller
CancelAllAbortsOwnSignal ==
    [][ cancel'.cancelCalls = cancel.cancelCalls + 1 =>
            /\ cancel'.timeoutControllers = EmptyMap
            /\ \A r \in Reqs : cancel.reqs[r].pc = "inflight" =>
                  (cancel'.reqs[r].pc = "aborting"
                     <=> /\ cancel.reqs[r].signal = "request"
                         /\ \E id \in DOMAIN cancel.timeoutControllers :
                               cancel.timeoutControllers[id] = r) ]_vars

-----------------------------------------------------------------------------
(* C25: the timeout of a client *)

\* the timer fires when it is due, an aborted fetch rejects; nothing makes
\* the transport answer
FairCancel ==
    /\ \A r \in Reqs : WF_vars(TimerFires(r))
    /\ \A r \in Reqs : WF_vars(AbortSettles(r))

Overdue(r) ==
    /\ cancel.timeout # 0
    /\ cancel.reqs[r].pc = "inflight"
    /\ now - cancel.reqs[r].armedAt >= cancel.timeout

\* C25: on a client with a timeout of N ms, a request whose transport call
\* has not completed N ms after the hook ran is aborted and eventually
\* settles with a failure.
C25_TimeoutSettles ==
    \A r \in Reqs : Overdue(r) ~> (cancel.reqs[r].pc = "settled")

\* what does hold: the same for a request whose caller has not aborted a
\* signal of its own
TimeoutSettlesUnlessCallerAborted ==
    \A r \in Reqs :
        (Overdue(r) /\ cancel.reqs[r].caller # "aborted")
            ~> (cancel.reqs[r].pc = "settled" \/ cancel.reqs[r].caller = "aborted")

-----------------------------------------------------------------------------
(* C36: the calls one invocation of withAuth makes *)

\* C36: an invocation of withAuth calls tryRefreshToken at most once and the
\* request function at most twice; the request function is called a second
\* time only after a refresh that gave an access token, and with that token.
C36_CallsPerInvocation ==
    \A p \in Procs :
        LET w == auth[p] IN
        /\ w.refreshCalls <= 1
        /\ w.requestCalls <= 2
        /\ w.requestCalls = 2 =>
              /\ w.refreshCalls = 1
              /\ Len(w.outcomes) >= 1
              /\ w.pc \in {"requesting2", "returned", "failed"}
        /\ (w.requestCalls = 2 /\ w.pc = "requesting2") =>
              /\ w.newAccessToken # NullToken
              /\ w.bearer = w.newAccessToken
              /\ getAccessToken(TheStore) = w.newAccessToken

\* the request function is called for the second time, after a 403 and a
\* refresh, with the new access token
C36_Witness ==
    \E p \in Procs :
        /\ auth[p].pc = "requesting2"
        /\ auth[p].requestCalls = 2
        /\ auth[p].refreshCalls = 1
        /\ auth[p].outcomes = <<"throw403">>
        /\ auth[p].accessToken = <<"a">>
        /\ auth[p].bearer = <<"b">>

-----------------------------------------------------------------------------
(* C37: the request after a refresh that was made before it *)

\* the request function, called after the refresh of the branch for an
\* absent or expired access token, settles in this step
RequestAfterPreRefreshSettles(p) ==
    /\ auth[p].pc = "requesting2"
    /\ auth[p].branch = "pre"
    /\ auth'[p].pc \in {"returned", "failed"}

\* C37: when the request function settles after a refresh made before it,
\* with a failure result or by throwing, the tokens that the refresh stored
\* stay stored and no logout is performed.
C37_RequestLeavesStore ==
    [][ \A p \in Procs :
          RequestAfterPreRefreshSettles(p) =>
              /\ storeVars' = storeVars
              /\ location' = location
              /\ auth'[p].logouts = auth[p].logouts ]_vars

\* what does hold: the store is left alone when the request function
\* returns a result; when it throws, withAuth logs out
RequestResultLeavesStore ==
    [][ \A p \in Procs :
          RequestAfterPreRefreshSettles(p) =>
              IF auth'[p].pc = "returned"
              THEN storeVars' = storeVars /\ auth'[p].logouts = auth[p].logouts
              ELSE /\ localStorage' = EmptyStorage
                   /\ auth'[p].logouts = auth[p].logouts + 1
                   /\ auth'[p].err = "Token refresh failed" ]_vars

\* withAuth has logged out because the request after its refresh threw
LoggedOutByRequest ==
    \E p \in Procs :
        /\ auth[p].pc = "failed"
        /\ auth[p].err = "Token refresh failed"
        /\ auth[p].requestCalls = 1
        /\ auth[p].refreshCalls = 1
        /\ localStorage = EmptyStorage

-----------------------------------------------------------------------------
(* C33, C34: invocations of withAuth that overlap, and logout between their *)
(* steps                                                                     *)

\* two invocations of the middleware of one client, both allowed to run
InitOverlap ==
    /\ middleware = DefaultMiddleware
    /\ active = Procs
    /\ auth = [p \in Procs |-> IdleInvocation]
    /\ location = "/app"

NextOverlap ==
    \/ SessionLogin
    \/ LogoutCall
    \/ \E p \in Procs : WithAuthCall(p)
    \/ \E p \in Procs : GetRefreshTokenStep(p)
    \/ \E p \in Procs : CheckTokensStep(p)
    \/ \E p \in Procs : RefreshSettles(p)
    \/ \E p \in Procs : SetTokensStep(p)
    \/ \E p \in Procs : RestoreExpiryStep(p)
    \/ \E p \in Procs : RequestSettles(p)
    \/ \E p \in Procs : RetrySettles(p)

\* the invocations whose tryRefreshToken has not settled
Refreshing == { p \in Procs : auth[p].pc = "refreshing" }

\* invocation p calls tryRefreshToken in this step
StartsRefresh(p) == auth[p].pc # "refreshing" /\ auth'[p].pc = "refreshing"

\* C33: at most one call of tryRefreshToken is in flight at any time, and
\* the refresh token an invocation sends is not one that the refresh of
\* another invocation has replaced in the store.
C33_SingleFlightRefresh ==
    [][ /\ Cardinality(Refreshing') <= 1
        /\ \A p \in Procs :
              StartsRefresh(p) =>
                  getRefreshToken(TheStore) \in {NullToken, auth'[p].refreshToken} ]_vars

\* both invocations are waiting for tryRefreshToken
TwoRefreshesInFlight == Cardinality(Refreshing) = 2

\* an invocation is waiting for tryRefreshToken with a refresh token that is
\* not the stored one any more
StaleRefreshTokenSent ==
    \E p \in Procs :
        /\ auth[p].pc = "refreshing"
        /\ getRefreshToken(TheStore) \notin {NullToken, auth[p].refreshToken}

\* C34: from logout until the application stores tokens again, localStorage
\* holds no access token, no refresh token and no expiry, whatever an
\* invocation of withAuth that was under way does when it resumes.
C34_LogoutStays ==
    tokLast.op = "logout" =>
        /\ localStorage.accessToken = NoItem
        /\ localStorage.refreshToken = NoItem
        /\ localStorage.accessExpiresAt = Absent
        /\ localStorage.refreshExpiresAt = Absent

\* what does hold: logout stays when no invocation was waiting for
\* tryRefreshToken or setTokens while it ran
LogoutStaysWhenIdle ==
    [][ (/\ tokLast.op = "logout"
         /\ localStorage.accessToken = NoItem
         /\ localStorage'.accessToken # NoItem
         /\ tokLast'.op = "logout")
           => \E p \in Procs : auth[p].pc = "settingTokens" ]_vars

-----------------------------------------------------------------------------
(* C35: two cache-enabled clients of different base URLs (createClient.ts    *)
(* 33, 296-297, 305-371): pendingRequests is one map of the module, clientId *)
(* is drawn per client                                                       *)

BaseUrls == {"https://a.test", "https://b.test"}

\* a call of client.get of the client built with the base URL
IdleGetOf(base) ==
    [pc |-> "idle", url |-> "/x", headers |-> "{}", hit |-> NoData, seen |-> {},
     joined |-> "none", calls |-> 0, data |-> NoData, base |-> base]

\* `${clientId}:${cacheKeyGenerator.generate('GET', url)}`: the clientId
\* tells the clients apart, and is named by the base URL here
clientCacheKey(base, url) == <<base, "GET", url>>

InitShared ==
    \E of \in [Callers -> BaseUrls] :
        dedup = [variant |-> "createClient.ts", pending |-> EmptyMap, fresh |-> EmptyMap,
                 get |-> [g \in Callers |-> IdleGetOf(of[g])], cleared |-> FALSE]

\* client.get(url, headers) up to `await cacheStorage.get(cacheKey)`
SharedGetCall(g) ==
    /\ dedup.get[g].pc = "idle"
    /\ \E url \in Urls, headers \in HeaderSets :
        LET base == dedup.get[g].base
            ck == clientCacheKey(base, url)
        IN
        dedup' = [dedup EXCEPT !.get[g] =
            [IdleGetOf(base) EXCEPT
                !.pc = "lookup", !.url = url, !.headers = headers,
                !.hit = IF ck \in DOMAIN dedup.fresh THEN dedup.fresh[ck] ELSE NoData,
                !.seen = InFlightFor(requestKey(url, headers))]]
    /\ UNCHANGED notDedup

\* originalGet of the caller's client settles; a success is written to the
\* cache under the client's key
SharedTransportSettles(g) ==
    /\ dedup.get[g].pc = "inflight"
    /\ LET w == dedup.get[g] IN
       \/ dedup' = [dedup EXCEPT
                        !.get[g] = [w EXCEPT !.pc = "settling",
                                             !.data = [ok |-> TRUE, from |-> g]],
                        !.fresh = MapSet(@, clientCacheKey(w.base, w.url),
                                         [ok |-> TRUE, from |-> g])]
       \/ dedup' = [dedup EXCEPT
                        !.get[g] = [w EXCEPT !.pc = "settling",
                                             !.data = [ok |-> FALSE, from |-> g]]]
    /\ UNCHANGED notDedup

NextShared ==
    \/ \E g \in Callers : SharedGetCall(g)
    \/ \E g \in Callers : AfterLookup(g)
    \/ \E g \in Callers : SharedTransportSettles(g)
    \/ \E g \in Callers : PromiseSettles(g)

\* the base URL of the transport call whose result the caller was given
ServedFrom(g) == dedup.get[dedup.get[g].data.from].base

\* C35: a GET of one client is resolved only with the result of a transport
\* call to the base URL of that client.
C35_OwnBaseUrlOnly ==
    \A g \in Callers :
        (dedup.get[g].pc = "done" /\ dedup.get[g].data.from # "none")
            => ServedFrom(g) = dedup.get[g].base

\* what does hold: a result of another base URL is reached only through
\* pendingRequests; the cache and the client's own call give the client's own
OtherBaseOnlyByJoining ==
    \A g \in Callers :
        (/\ dedup.get[g].pc = "done"
         /\ dedup.get[g].data.from # "none"
         /\ ServedFrom(g) # dedup.get[g].base)
            => dedup.get[g].joined = dedup.get[g].data.from

\* a caller has been given the result of a call to the other base URL
ServedFromOtherBase ==
    \E g \in Callers :
        /\ dedup.get[g].pc = "done"
        /\ dedup.get[g].data.ok
        /\ ServedFrom(g) # dedup.get[g].base

-----------------------------------------------------------------------------
(* Specifications *)

\* the components that a specification leaves idle
IdleCache == InitCache /\ maxSize = 1
IdleRetry == InitRetry /\ client = DefaultClient
IdleAuth  == InitAuth /\ middleware = DefaultMiddleware
IdleWrap  ==
    /\ wrap = IdleWrapper([maxAge |-> 0, methods |-> {"GET"}, codes |-> {200}])
    /\ keygen = IdleKeygen("GET", WrapUrl, WrapUrl, "none")
    /\ cancel = IdleCanceller(0)
IdlePipe  ==
    /\ http = IdleHttp(0, 0, 0) /\ InitDedup /\ dedup.variant = "createClient.ts"
    /\ IdleWrap

\* the circuit breaker alone
InitOfBreaker == InitClock /\ InitBreaker /\ IdleCache /\ IdleRetry /\ InitToken /\ IdleAuth /\ IdlePipe

SpecBreaker == InitOfBreaker /\ [][NextBreaker]_vars

\* one MemoryCacheStorage alone, built with any maxSize
InitOfCache == InitClock /\ InitBreaker /\ InitCache /\ IdleRetry /\ InitToken /\ IdleAuth /\ IdlePipe

SpecCache == InitOfCache /\ [][NextCache]_vars

\* a client with retry enabled calling a permanently failing endpoint
InitOfRetry == InitClock /\ InitBreaker /\ IdleCache /\ InitRetry /\ InitToken /\ IdleAuth /\ IdlePipe

SpecRetry == InitOfRetry /\ [][NextRetry]_vars

-----------------------------------------------------------------------------
(* C15: what handleRetry re-issues *)

\* C15: every transport call of a request, the retries included, is made
\* with the method, the headers and the body of the original request.
C15_ReissuedVerbatim ==
    req.calls >= 1 => req.sent = req.config

\* what does hold: the five methods of handleRetry's switch are re-issued
\* with their headers and body
SwitchMethodsVerbatim ==
    (req.calls >= 1 /\ req.config.method \in {"GET", "POST", "PUT", "PATCH", "DELETE"})
        => req.sent = req.config

-----------------------------------------------------------------------------
(* C16: the result of a request whose retry succeeds *)

\* C16: when the retry handler re-issues a failed request and the retry
\* succeeds, the caller of the original request receives a success result.
C16_CallerGetsRetryOutcome ==
    (req.pc = "done" /\ req.retryOk) => req.ok

\* what does hold: the caller receives a failure whose error is the retry's
\* result turned into a string
RetryOutcomeIsStringified ==
    (req.pc = "done" /\ req.retryOk) =>
        /\ ~req.ok
        /\ req.error.text = "[object Object]"

-----------------------------------------------------------------------------
\* the retry handler with an error interceptor of the application before it
InitOfReissue == InitClock /\ InitBreaker /\ IdleCache /\ InitReissue /\ InitToken /\ IdleAuth /\ IdlePipe

SpecReissue == InitOfReissue /\ [][NextReissue]_vars

\* requests that succeed and fail on one origin, and its breaker
InitOfBreakerUse == InitClock /\ InitBreaker /\ IdleCache /\ InitBreakerUse /\ InitToken /\ IdleAuth /\ IdlePipe

SpecBreakerUse == InitOfBreakerUse /\ [][NextBreakerUse]_vars

\* the token store called by an application
InitOfToken == InitClock /\ InitBreaker /\ IdleCache /\ IdleRetry /\ InitToken /\ IdleAuth /\ IdlePipe

SpecToken == InitOfToken /\ [][NextToken]_vars

\* the token store called with good, short and missing keys, read and cleared
InitOfKeys == InitClock /\ InitBreaker /\ IdleCache /\ IdleRetry /\ InitToken /\ IdleAuth /\ IdlePipe

SpecKeys == InitOfKeys /\ [][NextKeys]_vars

\* the token store written by calls that succeed and calls that fail
SpecWrites == InitOfKeys /\ [][NextWrites]_vars

\* the token store called with ttls while time passes
InitOfExpiry == InitClock /\ InitBreaker /\ IdleCache /\ IdleRetry /\ InitToken /\ IdleAuth /\ IdlePipe

SpecExpiry == InitOfExpiry /\ [][NextExpiry]_vars

\* an application that logs in and calls withAuth, one invocation at a time
InitOfAuth == InitClock /\ InitBreaker /\ IdleCache /\ IdleRetry /\ InitToken /\ InitAuth /\ IdlePipe

SpecAuth == InitOfAuth /\ [][NextAuth]_vars

\* two invocations of withAuth at once, and an application that logs in and out
InitOfOverlap == InitClock /\ InitBreaker /\ IdleCache /\ IdleRetry /\ InitToken /\ InitOverlap /\ IdlePipe

SpecOverlap == InitOfOverlap /\ [][NextOverlap]_vars

\* one HttpClient with any interceptors, making requests one after the other
InitOfHttp ==
    /\ InitClock /\ InitBreaker /\ IdleCache /\ IdleRetry /\ InitToken /\ IdleAuth
    /\ InitHttp /\ InitDedup /\ dedup.variant = "createClient.ts" /\ IdleWrap

SpecHttp == InitOfHttp /\ [][NextHttp]_vars

\* a cache-enabled client whose get is called by several callers at once
InitOfDedup ==
    /\ InitClock /\ InitBreaker /\ IdleCache /\ IdleRetry /\ InitToken /\ IdleAuth
    /\ http = IdleHttp(0, 0, 0) /\ InitDedup /\ IdleWrap

SpecDedup == InitOfDedup /\ [][NextDedup]_vars

\* two cache-enabled clients of different base URLs whose get is called by
\* several callers at once
InitOfShared ==
    /\ InitClock /\ InitBreaker /\ IdleCache /\ IdleRetry /\ InitToken /\ IdleAuth
    /\ http = IdleHttp(0, 0, 0) /\ InitShared /\ IdleWrap

SpecShared == InitOfShared /\ [][NextShared]_vars

\* a cache-enabled client whose get and post are called one after the other
InitOfWrap ==
    /\ InitClock /\ InitBreaker /\ IdleCache /\ IdleRetry /\ InitToken /\ IdleAuth
    /\ http = IdleHttp(0, 0, 0) /\ InitDedup /\ dedup.variant = "createClient.ts"
    /\ InitWrap /\ keygen = IdleKeygen("GET", WrapUrl, WrapUrl, "none")
    /\ cancel = IdleCanceller(0)

SpecWrap == InitOfWrap /\ [][NextWrap]_vars

\* an application that logs in, reads through the cache-enabled client and
\* logs out
SpecSession == InitOfWrap /\ [][NextSession]_vars

\* a cache-enabled client built with includeQueryParams, and its GETs
InitOfQuery ==
    /\ InitClock /\ InitBreaker /\ IdleCache /\ IdleRetry /\ InitToken /\ IdleAuth
    /\ http = IdleHttp(0, 0, 0) /\ InitDedup /\ dedup.variant = "createClient.ts"
    /\ InitQuery /\ keygen = IdleKeygen("GET", WrapUrl, WrapUrl, "none")
    /\ cancel = IdleCanceller(0)

SpecQuery == InitOfQuery /\ [][NextQuery]_vars

\* CacheKeyGenerator.generate on two URLs
InitOfKeygen ==
    /\ InitClock /\ InitBreaker /\ IdleCache /\ IdleRetry /\ InitToken /\ IdleAuth
    /\ http = IdleHttp(0, 0, 0) /\ InitDedup /\ dedup.variant = "createClient.ts"
    /\ wrap = IdleWrapper([maxAge |-> 0, methods |-> {"GET"}, codes |-> {200}])
    /\ InitKeygen
    /\ cancel = IdleCanceller(0)

SpecKeygen == InitOfKeygen /\ [][NextKeygen]_vars

\* a client and two requests that may be cancelled or time out
InitOfCancel ==
    /\ InitClock /\ InitBreaker /\ IdleCache /\ IdleRetry /\ InitToken /\ IdleAuth
    /\ http = IdleHttp(0, 0, 0) /\ InitDedup /\ dedup.variant = "createClient.ts"
    /\ wrap = IdleWrapper([maxAge |-> 0, methods |-> {"GET"}, codes |-> {200}])
    /\ keygen = IdleKeygen("GET", WrapUrl, WrapUrl, "none")
    /\ InitCancel

SpecCancel == InitOfCancel /\ [][NextCancel]_vars

\* the same with the timers and the rejections taking place
SpecTimeout == InitOfCancel /\ [][NextCancel]_vars /\ FairCancel

=============================================================================
